---- MODULE Spec2Model ----
(***************************************************************************)
(* The application registry of the mailbox server                         *)
(* (src/src/mailbox_server/app.rs): nameplates, mailboxes, subscribers    *)
(* and the outbound channels the registry sends `message` envelopes on.   *)
(*                                                                         *)
(* Every operation of App is one atomic action: the connection handlers   *)
(* of bin.rs call into the registry under one process-wide Mutex, so the  *)
(* calls of concurrent connections are serialised in some order.          *)
(*                                                                         *)
(* The connection handler itself (handle_connection of bin.rs) and the    *)
(* server operations it calls follow the registry, then the envelopes'    *)
(* serialization (message.rs), the payload encryption (client/crypto.rs)  *)
(* and the client program (client/bin.rs).                                *)
(***************************************************************************)
EXTENDS Integers, Sequences, FiniteSets, TLC

(***************************************************************************)
(* Bounds of the model.                                                    *)
(***************************************************************************)
\* Exclusive end of the nameplate id range (999 in the source).
NameplateIdEnd == 3
\* Cap on the number of messages ever added under one mailbox id.
MaxMessages == 2
\* Cap on the number of envelopes ever sent on one channel: room for a replay
\* of a full history followed by one more broadcast.
MaxQueue == MaxMessages + 1
\* Cap on the number of frames a connection receives.
MaxFrames == 3
\* Cap on the number of frames the client receives.
MaxReceived == 6

(***************************************************************************)
(* Inputs.                                                                 *)
(***************************************************************************)
Sides == {"side1", "side2", "side3"}
\* The sending halves of the connections' unbounded channels, by identity.
Senders == {"tx1", "tx2"}
\* Mailbox ids are opaque strings in the source; the model has two of them.
MailboxIds == {1, 2}

\* std::option::Option
None == <<>>
Some(x) == <<x>>

\* message.rs, enum Phase
Pake == [tag |-> "pake"]
Version == [tag |-> "version"]
Message(n) == [tag |-> "message", n |-> n]

\* The messages the callers add: all five fields differ between the two.
MessageInputs ==
    { [id |-> "msgid1", timestamp |-> 1, side |-> "side1", phase |-> Pake, body |-> <<1>>],
      [id |-> "msgid2", timestamp |-> 2, side |-> "side2", phase |-> Message(0), body |-> <<2>>] }

\* const NAMEPLATE_ID_RANGE: Range<usize> = 1..999 (end exclusive)
NAMEPLATE_ID_RANGE == 1..(NameplateIdEnd - 1)
\* The ids a caller of claim_nameplate / release_nameplate may pass: any usize.
NameplateIdInputs == NAMEPLATE_ID_RANGE

VARIABLES
    nameplates,   \* App.nameplates: HashMap<usize, Nameplate>
    mailboxes,    \* App.mailboxes: HashMap<String, Mailbox>
    queues,       \* per sender, everything sent on its channel so far, in order
    panicked,     \* an expect()/assert!() of the registry has failed
    last,         \* the last call: its name, arguments and return value
    delivered,    \* per (mailbox id, side): envelopes sent to that subscriber
                  \* since it subscribed (empty when not subscribed)
    appended,     \* per mailbox id: every message ever added under that id
    connections,  \* per connection: its Connection and the position of its
                  \* handler (handle_connection of bin.rs)
    apps,         \* the Apps of the AppIds other than the first one, whose App
                  \* is nameplates and mailboxes
    client        \* the client program (client/bin.rs): its Client, what it sent
                  \* on its channel, and whether handle_incoming still runs

vars == <<nameplates, mailboxes, queues, panicked, last, delivered, appended, connections,
          apps, client>>

(***************************************************************************)
(* Maps.                                                                   *)
(***************************************************************************)
EmptyMap == <<>>
contains_key(map, k) == k \in DOMAIN map
insert(map, k, v) == (k :> v) @@ map
remove(map, k) == [x \in (DOMAIN map) \ {k} |-> map[x]]
\* HashMap::retain: the map restricted to the keys that are kept.
\* (Vec::retain is SelectSeq.)
retain_keys(map, kept) == [x \in kept |-> map[x]]
contains(seq, x) == \E i \in 1..Len(seq) : seq[i] = x

(***************************************************************************)
(* message.rs                                                              *)
(***************************************************************************)
\* ServerMessage::new. server_tx is the wall clock at construction and is
\* not part of the record.
ServerMessage_new(id, server_rx, ty) == [id |-> id, server_rx |-> server_rx, ty |-> ty]

\* The `message` envelope built from a stored MailboxMessage.
forward_msg(msg) ==
    ServerMessage_new(Some(msg.id), Some(msg.timestamp),
        [type |-> "message", side |-> msg.side, phase |-> msg.phase, body |-> msg.body])

\* UnboundedSender::unbounded_send
unbounded_send(q, sender, m) == [q EXCEPT ![sender] = Append(@, m)]

(***************************************************************************)
(* impl Mailbox                                                            *)
(***************************************************************************)
Mailbox_new == [messages |-> <<>>, subscribers |-> <<>>]

\* The loop of add_message: one send per subscriber, in subscriber order.
RECURSIVE forward_to_subscribers(_, _, _)
forward_to_subscribers(q, subscribers, m) ==
    IF subscribers = <<>> THEN q
    ELSE forward_to_subscribers(unbounded_send(q, Head(subscribers).sender, m),
                                Tail(subscribers), m)

\* Mutant: the sender of the message gets no echo of it.
add_message_no_echo(mailbox, msg, q) ==
    [mailbox |-> [mailbox EXCEPT !.messages = Append(@, msg)],
     q |-> forward_to_subscribers(q, SelectSeq(mailbox.subscribers, LAMBDA s : s.side # msg.side),
                                  forward_msg(msg))]

\* Mutant: the message is stored in front of the older ones.
add_message_stored_first(mailbox, msg, q) ==
    [mailbox |-> [mailbox EXCEPT !.messages = <<msg>> \o @],
     q |-> forward_to_subscribers(q, mailbox.subscribers, forward_msg(msg))]

\* Mutant: a message equal to a stored one is neither stored nor sent again.
add_message_dedup(mailbox, msg, q) ==
    IF contains(mailbox.messages, msg)
    THEN [mailbox |-> mailbox, q |-> q]
    ELSE [mailbox |-> [mailbox EXCEPT !.messages = Append(@, msg)],
          q |-> forward_to_subscribers(q, mailbox.subscribers, forward_msg(msg))]

\* Mailbox::add_message
add_message(mailbox, msg, q) ==
    [mailbox |-> [mailbox EXCEPT !.messages = Append(@, msg)],
     q |-> forward_to_subscribers(q, mailbox.subscribers, forward_msg(msg))]

\* The loop of add_subscriber: the stored messages, oldest first.
RECURSIVE replay_messages(_, _, _)
replay_messages(q, sender, messages) ==
    IF messages = <<>> THEN q
    ELSE replay_messages(unbounded_send(q, sender, forward_msg(Head(messages))),
                         sender, Tail(messages))

is_subscribed(mailbox, side) ==
    \E i \in 1..Len(mailbox.subscribers) : mailbox.subscribers[i].side = side

\* Mutant: the history is replayed newest first.
RECURSIVE reverse(_)
reverse(seq) == IF seq = <<>> THEN <<>> ELSE Append(reverse(Tail(seq)), Head(seq))
add_subscriber_newest_first(mailbox, side, sender, q) ==
    IF is_subscribed(mailbox, side)
    THEN [mailbox |-> mailbox, q |-> q]
    ELSE [mailbox |-> [mailbox EXCEPT !.subscribers =
                          Append(@, [side |-> side, sender |-> sender])],
          q |-> replay_messages(q, sender, reverse(mailbox.messages))]

\* Mutant: a new subscriber is sent nothing of the history.
add_subscriber_no_replay(mailbox, side, sender, q) ==
    IF is_subscribed(mailbox, side)
    THEN [mailbox |-> mailbox, q |-> q]
    ELSE [mailbox |-> [mailbox EXCEPT !.subscribers =
                          Append(@, [side |-> side, sender |-> sender])],
          q |-> q]

\* Mutant: a side that is already subscribed is sent the history again.
add_subscriber_replays_again(mailbox, side, sender, q) ==
    IF is_subscribed(mailbox, side)
    THEN [mailbox |-> mailbox, q |-> replay_messages(q, sender, mailbox.messages)]
    ELSE [mailbox |-> [mailbox EXCEPT !.subscribers =
                          Append(@, [side |-> side, sender |-> sender])],
          q |-> replay_messages(q, sender, mailbox.messages)]

\* Mailbox::add_subscriber
add_subscriber(mailbox, side, sender, q) ==
    IF is_subscribed(mailbox, side)
    THEN [mailbox |-> mailbox, q |-> q]
    ELSE [mailbox |-> [mailbox EXCEPT !.subscribers =
                          Append(@, [side |-> side, sender |-> sender])],
          q |-> replay_messages(q, sender, mailbox.messages)]

\* Mailbox::remove_subscriber
remove_subscriber(mailbox, side) ==
    [mailbox EXCEPT !.subscribers = SelectSeq(@, LAMBDA s : s.side # side)]

\* Nameplate::is_empty
is_empty(nameplate) == nameplate.sides = <<>>

(***************************************************************************)
(* impl App. An App value is [nameplates, mailboxes]; every operation      *)
(* returns the App after the call, the channels after the call, the        *)
(* return value, and whether the call panicked (leaving the App as it was  *)
(* when the panic was raised).                                             *)
(***************************************************************************)
Returned(app, q, ret) == [app |-> app, q |-> q, ret |-> ret, panic |-> FALSE]
Panic(app, q) == [app |-> app, q |-> q, ret |-> None, panic |-> TRUE]
Unit == "()"

\* App::generate_mailbox_id: 8 random bytes, base32. The ids it can return
\* are those that name no mailbox and no nameplate of the App: a collision of
\* 64 random bits with a live id is not modelled.
generate_mailbox_id(app) ==
    { m \in MailboxIds :
        /\ ~contains_key(app.mailboxes, m)
        /\ \A n \in DOMAIN app.nameplates : app.nameplates[n].mailbox_id # m }

\* Mutant: the mailbox is created when absent, but the side is not subscribed.
open_mailbox_no_subscribe(app, q, mailbox_id, side, sender) ==
    LET created == IF ~contains_key(app.mailboxes, mailbox_id)
                   THEN insert(app.mailboxes, mailbox_id, Mailbox_new)
                   ELSE app.mailboxes
    IN  Returned([app EXCEPT !.mailboxes = created], q,
                 IF Len(created[mailbox_id].subscribers) >= 3 THEN None ELSE Some(Unit))

\* Mutant: a third side is turned away without being subscribed.
open_mailbox_rejects_third(app, q, mailbox_id, side, sender) ==
    LET created == IF ~contains_key(app.mailboxes, mailbox_id)
                   THEN insert(app.mailboxes, mailbox_id, Mailbox_new)
                   ELSE app.mailboxes
        r == add_subscriber(created[mailbox_id], side, sender, q)
    IN  IF Len(r.mailbox.subscribers) >= 3
        THEN Returned([app EXCEPT !.mailboxes = created], q, None)
        ELSE Returned([app EXCEPT !.mailboxes = [created EXCEPT ![mailbox_id] = r.mailbox]],
                      r.q, Some(Unit))

\* App::open_mailbox
open_mailbox(app, q, mailbox_id, side, sender) ==
    LET created == IF ~contains_key(app.mailboxes, mailbox_id)
                   THEN insert(app.mailboxes, mailbox_id, Mailbox_new)
                   ELSE app.mailboxes
        r == add_subscriber(created[mailbox_id], side, sender, q)
    IN  Returned([app EXCEPT !.mailboxes = [created EXCEPT ![mailbox_id] = r.mailbox]],
                 r.q,
                 IF Len(r.mailbox.subscribers) >= 3 THEN None ELSE Some(Unit))

\* Mutant: a free nameplate is created without opening its mailbox.
claim_nameplate_no_open(app, q, nameplate_id, side, sender, new_mailbox_id) ==
    IF contains_key(app.nameplates, nameplate_id)
    THEN LET nameplate == app.nameplates[nameplate_id]
             pushed == Append(nameplate.sides, side)
         IN  IF nameplate.sides = <<>>
             THEN Panic(app, q)
             ELSE IF contains(nameplate.sides, side)
             THEN Returned(app, q, Some(nameplate.mailbox_id))
             ELSE Returned([app EXCEPT !.nameplates[nameplate_id].sides = pushed], q,
                           IF Len(pushed) >= 3 THEN None ELSE Some(nameplate.mailbox_id))
    ELSE Returned([app EXCEPT !.nameplates =
                      insert(@, nameplate_id,
                             [mailbox_id |-> new_mailbox_id, sides |-> <<side>>])],
                  q, Some(new_mailbox_id))

\* Mutant: a side that joins a nameplate is handed another mailbox id, which
\* the nameplate resolves to from then on.
claim_nameplate_rebinds(app, q, nameplate_id, side, sender, new_mailbox_id) ==
    IF contains_key(app.nameplates, nameplate_id)
    THEN LET nameplate == app.nameplates[nameplate_id]
             pushed == Append(nameplate.sides, side)
             other == CHOOSE m \in MailboxIds : m # nameplate.mailbox_id
         IN  IF nameplate.sides = <<>>
             THEN Panic(app, q)
             ELSE IF contains(nameplate.sides, side)
             THEN Returned(app, q, Some(nameplate.mailbox_id))
             ELSE Returned([app EXCEPT !.nameplates[nameplate_id] =
                                [mailbox_id |-> other, sides |-> pushed]], q,
                           IF Len(pushed) >= 3 THEN None ELSE Some(other))
    ELSE LET r == open_mailbox(app, q, new_mailbox_id, side, sender)
         IN  Returned([r.app EXCEPT !.nameplates =
                          insert(@, nameplate_id,
                                 [mailbox_id |-> new_mailbox_id, sides |-> <<side>>])],
                      r.q, Some(new_mailbox_id))

\* Mutant: a third side is turned away without being recorded.
claim_nameplate_rejects_third(app, q, nameplate_id, side, sender, new_mailbox_id) ==
    IF contains_key(app.nameplates, nameplate_id)
    THEN LET nameplate == app.nameplates[nameplate_id]
             pushed == Append(nameplate.sides, side)
         IN  IF nameplate.sides = <<>>
             THEN Panic(app, q)
             ELSE IF contains(nameplate.sides, side)
             THEN Returned(app, q, Some(nameplate.mailbox_id))
             ELSE IF Len(pushed) >= 3
             THEN Returned(app, q, None)
             ELSE Returned([app EXCEPT !.nameplates[nameplate_id].sides = pushed], q,
                           Some(nameplate.mailbox_id))
    ELSE LET r == open_mailbox(app, q, new_mailbox_id, side, sender)
         IN  Returned([r.app EXCEPT !.nameplates =
                          insert(@, nameplate_id,
                                 [mailbox_id |-> new_mailbox_id, sides |-> <<side>>])],
                      r.q, Some(new_mailbox_id))

\* Mutant: a side that claims its nameplate again is turned away when the
\* nameplate is crowded.
claim_nameplate_reclaim_crowded(app, q, nameplate_id, side, sender, new_mailbox_id) ==
    IF contains_key(app.nameplates, nameplate_id)
    THEN LET nameplate == app.nameplates[nameplate_id]
             pushed == Append(nameplate.sides, side)
         IN  IF nameplate.sides = <<>>
             THEN Panic(app, q)
             ELSE IF contains(nameplate.sides, side)
             THEN Returned(app, q, IF Len(nameplate.sides) >= 3 THEN None
                                   ELSE Some(nameplate.mailbox_id))
             ELSE Returned([app EXCEPT !.nameplates[nameplate_id].sides = pushed], q,
                           IF Len(pushed) >= 3 THEN None ELSE Some(nameplate.mailbox_id))
    ELSE LET r == open_mailbox(app, q, new_mailbox_id, side, sender)
         IN  Returned([r.app EXCEPT !.nameplates =
                          insert(@, nameplate_id,
                                 [mailbox_id |-> new_mailbox_id, sides |-> <<side>>])],
                      r.q, Some(new_mailbox_id))

\* Mutant: a side that joins a nameplate is subscribed to a mailbox of its own
\* and handed that one.
claim_nameplate_private_mailbox(app, q, nameplate_id, side, sender, new_mailbox_id) ==
    IF contains_key(app.nameplates, nameplate_id)
    THEN LET nameplate == app.nameplates[nameplate_id]
             pushed == Append(nameplate.sides, side)
             other == CHOOSE m \in MailboxIds : m # nameplate.mailbox_id
             r == open_mailbox(app, q, other, side, sender)
         IN  IF nameplate.sides = <<>>
             THEN Panic(app, q)
             ELSE IF contains(nameplate.sides, side)
             THEN Returned(app, q, Some(nameplate.mailbox_id))
             ELSE Returned([r.app EXCEPT !.nameplates[nameplate_id].sides = pushed], r.q,
                           IF Len(pushed) >= 3 THEN None ELSE Some(other))
    ELSE LET r == open_mailbox(app, q, new_mailbox_id, side, sender)
         IN  Returned([r.app EXCEPT !.nameplates =
                          insert(@, nameplate_id,
                                 [mailbox_id |-> new_mailbox_id, sides |-> <<side>>])],
                      r.q, Some(new_mailbox_id))

\* Mutant: the side is pushed without looking for it among the sides.
claim_nameplate_pushes_again(app, q, nameplate_id, side, sender, new_mailbox_id) ==
    IF contains_key(app.nameplates, nameplate_id)
    THEN LET nameplate == app.nameplates[nameplate_id]
             pushed == Append(nameplate.sides, side)
         IN  IF nameplate.sides = <<>>
             THEN Panic(app, q)
             ELSE Returned([app EXCEPT !.nameplates[nameplate_id].sides = pushed], q,
                           IF Len(pushed) >= 3 THEN None ELSE Some(nameplate.mailbox_id))
    ELSE LET r == open_mailbox(app, q, new_mailbox_id, side, sender)
         IN  Returned([r.app EXCEPT !.nameplates =
                          insert(@, nameplate_id,
                                 [mailbox_id |-> new_mailbox_id, sides |-> <<side>>])],
                      r.q, Some(new_mailbox_id))

\* App::claim_nameplate. new_mailbox_id is what generate_mailbox_id returns
\* when the call reaches it.
claim_nameplate(app, q, nameplate_id, side, sender, new_mailbox_id) ==
    IF contains_key(app.nameplates, nameplate_id)
    THEN LET nameplate == app.nameplates[nameplate_id]
             pushed == Append(nameplate.sides, side)
         IN  IF nameplate.sides = <<>>
             THEN Panic(app, q)
             ELSE IF contains(nameplate.sides, side)
             THEN Returned(app, q, Some(nameplate.mailbox_id))
             ELSE Returned([app EXCEPT !.nameplates[nameplate_id].sides = pushed], q,
                           IF Len(pushed) >= 3 THEN None ELSE Some(nameplate.mailbox_id))
    ELSE LET r == open_mailbox(app, q, new_mailbox_id, side, sender)
         IN  Returned([r.app EXCEPT !.nameplates =
                          insert(@, nameplate_id,
                                 [mailbox_id |-> new_mailbox_id, sides |-> <<side>>])],
                      r.q, Some(new_mailbox_id))

\* Mutant: the scan starts one id too early, at 0.
RECURSIVE scan_from(_, _)
scan_from(app, i) ==
    IF i >= NameplateIdEnd THEN None
    ELSE IF ~contains_key(app.nameplates, i) THEN Some(i)
    ELSE scan_from(app, i + 1)
first_free_from_zero(app, i) == scan_from(app, i - 1)

\* The scan of allocate_nameplate: the first i of the range, from i upwards,
\* that is not a key of nameplates.
RECURSIVE first_free(_, _)
first_free(app, i) ==
    IF i >= NameplateIdEnd THEN None
    ELSE IF ~contains_key(app.nameplates, i) THEN Some(i)
    ELSE first_free(app, i + 1)

\* Mutant: when no id is free the last id of the range is claimed anyway.
allocate_nameplate_claims_last(app, q, side, sender, new_mailbox_id) ==
    LET found == scan_from(app, 1)
        id == IF found = None THEN NameplateIdEnd - 1 ELSE found[1]
        r == claim_nameplate(app, q, id, side, sender, new_mailbox_id)
    IN  [r EXCEPT !.ret = IF found = None THEN None ELSE found]

\* Mutant: the first id of the range is handed out whether it is free or not.
allocate_nameplate_always_first(app, q, side, sender, new_mailbox_id) ==
    LET found == Some(1)
    IN  IF found = None THEN Returned(app, q, None)
        ELSE LET r == claim_nameplate(app, q, found[1], side, sender, new_mailbox_id)
             IN  [r EXCEPT !.ret = found]

\* App::allocate_nameplate
allocate_nameplate(app, q, side, sender, new_mailbox_id) ==
    LET found == first_free(app, 1)
    IN  IF found = None THEN Returned(app, q, None)
        ELSE LET r == claim_nameplate(app, q, found[1], side, sender, new_mailbox_id)
             IN  [r EXCEPT !.ret = found]

\* Mutant: a nameplate whose last side was released is kept.
release_nameplate_keep_empty(app, nameplate_id, side) ==
    IF contains_key(app.nameplates, nameplate_id)
    THEN [app EXCEPT !.nameplates[nameplate_id].sides = SelectSeq(@, LAMBDA s : s # side)]
    ELSE app

\* Mutant: the nameplate is deleted as soon as one of its sides releases it.
release_nameplate_deletes_shared(app, nameplate_id, side) ==
    IF contains_key(app.nameplates, nameplate_id)
    THEN IF contains(app.nameplates[nameplate_id].sides, side)
         THEN [app EXCEPT !.nameplates = remove(@, nameplate_id)]
         ELSE app
    ELSE app

\* App::release_nameplate
release_nameplate(app, nameplate_id, side) ==
    IF contains_key(app.nameplates, nameplate_id)
    THEN LET nameplate == [app.nameplates[nameplate_id] EXCEPT
                              !.sides = SelectSeq(@, LAMBDA s : s # side)]
         IN  IF is_empty(nameplate)
             THEN [app EXCEPT !.nameplates = remove(@, nameplate_id)]
             ELSE [app EXCEPT !.nameplates[nameplate_id] = nameplate]
    ELSE app

\* App::get_nameplates
get_nameplates(app) == DOMAIN app.nameplates

\* App::close_mailbox
close_mailbox(app, q, mailbox_id, side) ==
    IF ~contains_key(app.mailboxes, mailbox_id)
    THEN Panic(app, q)
    ELSE LET mailbox == remove_subscriber(app.mailboxes[mailbox_id], side)
         IN  IF mailbox.subscribers = <<>>
             THEN Returned([app EXCEPT !.mailboxes = remove(@, mailbox_id)], q, Unit)
             ELSE Returned([app EXCEPT !.mailboxes[mailbox_id] = mailbox], q, Unit)

\* Mutant: the sweep looks at the target mailbox only.
add_message_to_mailbox_sweeps_target(app, q, mailbox_id, message) ==
    IF ~contains_key(app.mailboxes, mailbox_id)
    THEN Panic(app, q)
    ELSE LET r == add_message(app.mailboxes[mailbox_id], message, q)
             added == [app.mailboxes EXCEPT ![mailbox_id] = r.mailbox]
         IN  Returned([app EXCEPT !.mailboxes =
                          IF r.mailbox.subscribers = <<>> THEN remove(added, mailbox_id)
                          ELSE added],
                      r.q, Unit)

\* App::add_message_to_mailbox
add_message_to_mailbox(app, q, mailbox_id, message) ==
    IF ~contains_key(app.mailboxes, mailbox_id)
    THEN Panic(app, q)
    ELSE LET r == add_message(app.mailboxes[mailbox_id], message, q)
             added == [app.mailboxes EXCEPT ![mailbox_id] = r.mailbox]
         IN  Returned([app EXCEPT !.mailboxes =
                          retain_keys(added, {m \in DOMAIN added : added[m].subscribers # <<>>})],
                      r.q, Unit)

\* App::remove_side_from_nameplates
remove_side_from_nameplates(app, side) ==
    LET removed == [n \in DOMAIN app.nameplates |->
                       [app.nameplates[n] EXCEPT !.sides = SelectSeq(@, LAMBDA s : s # side)]]
    IN  [app EXCEPT !.nameplates = retain_keys(removed, {n \in DOMAIN removed : ~is_empty(removed[n])})]

\* Mutant: the subscribers are compared by the side the handle is subscribed
\* with in the mailbox, not by the handle.
remove_subscriber_from_mailboxes_by_side(app, sender) ==
    [app EXCEPT !.mailboxes =
        [m \in DOMAIN app.mailboxes |->
            LET subscribers == app.mailboxes[m].subscribers
                sides == {subscribers[i].side :
                             i \in {x \in 1..Len(subscribers) : subscribers[x].sender = sender}}
                first == IF sides = {} THEN {} ELSE {CHOOSE s \in sides : TRUE}
            IN  [app.mailboxes[m] EXCEPT !.subscribers = SelectSeq(@, LAMBDA s : s.side \notin first)]]]

\* App::remove_subscriber_from_mailboxes (same_receiver compares channel identity)
remove_subscriber_from_mailboxes(app, sender) ==
    [app EXCEPT !.mailboxes =
        [m \in DOMAIN app.mailboxes |->
            [app.mailboxes[m] EXCEPT !.subscribers = SelectSeq(@, LAMBDA s : s.sender # sender)]]]

(***************************************************************************)
(* message.rs: the envelopes the connection handler builds itself.         *)
(***************************************************************************)
\* Mutant: the ack does not carry the id of the command.
ServerMessage_ack_anonymous(id) == ServerMessage_new(None, None, [type |-> "ack"])

\* Mutant: the ack carries a receive time.
ServerMessage_ack_with_rx(id) == ServerMessage_new(Some(id), Some(0), [type |-> "ack"])

\* ServerMessage::ack
ServerMessage_ack(id) == ServerMessage_new(Some(id), None, [type |-> "ack"])

\* Mutant: orig carries the command without the envelope's id.
ServerMessage_error_orig_type(client_msg, error) ==
    [id |-> Some(client_msg.id), server_rx |-> None,
     ty |-> [type |-> "error", error |-> error, orig |-> client_msg.ty]]

\* ServerMessage::error
ServerMessage_error(client_msg, error) ==
    [id |-> Some(client_msg.id), server_rx |-> None,
     ty |-> [type |-> "error", error |-> error, orig |-> client_msg]]

(***************************************************************************)
(* MailboxServer and Connection (mod server of bin.rs). Every connection   *)
(* binds to one and the same AppId; the App of that AppId is the registry  *)
(* above. An operation returns the App, the Connection and the channels    *)
(* after the call, q_app (the channels as the registry left them, before   *)
(* the direct response was enqueued), the error of a call that returned    *)
(* Err, and whether the call panicked.                                     *)
(***************************************************************************)
AppIds == {"X", "Y"}

\* The AppId whose App is held in nameplates and mailboxes.
FirstAppId == "X"

\* Mutant: every connection is served from the App of the first AppId.
app_id_of_shared(conn) == FirstAppId

\* The AppId a command of the connection is served under. A connection that
\* is not bound has none: its commands are rejected or leave the App alone,
\* whichever App they are handed.
app_id_of(conn) == IF conn.app_id = None THEN FirstAppId ELSE conn.app_id[1]

Connection_new(sender) ==
    [sender |-> sender, app_id |-> None, side |-> None,
     mailbox_id |-> None, nameplate_id |-> None]

Ok(app, conn, q, q_app) ==
    [app |-> app, conn |-> conn, q |-> q, q_app |-> q_app, err |-> None, panic |-> FALSE]
Err(app, conn, q, q_app, error) ==
    [app |-> app, conn |-> conn, q |-> q, q_app |-> q_app, err |-> Some(error), panic |-> FALSE]
Panicked(app, conn, q) ==
    [app |-> app, conn |-> conn, q |-> q, q_app |-> q, err |-> None, panic |-> TRUE]

\* The direct response to a command: it carries the command's id.
Response(msg, ty) == ServerMessage_new(Some(msg.id), Some(0), ty)
Respond(app, conn, q_app, msg, ty) ==
    Ok(app, conn, unbounded_send(q_app, conn.sender, Response(msg, ty)), q_app)

\* MailboxServer::connect: the welcome envelope.
server_connect(conn, q) ==
    unbounded_send(q, conn.sender,
        ServerMessage_new(None, None,
            [type |-> "welcome",
             welcome |-> [motd |-> None, error |-> None, permission_required |-> <<>>]]))

\* MailboxServer::ack
server_ack(conn, msg, q) == unbounded_send(q, conn.sender, ServerMessage_ack(msg.id))

\* Mutant: a repeated bind replaces the binding.
server_bind_overwrites(app, conn, q, app_id, side) ==
    Ok(app, [conn EXCEPT !.app_id = Some(app_id), !.side = Some(side)], q, q)

\* MailboxServer::bind
server_bind(app, conn, q, app_id, side) ==
    IF conn.app_id # None \/ conn.side # None
    THEN Err(app, conn, q, q, "already bound")
    ELSE Ok(app, [conn EXCEPT !.app_id = Some(app_id), !.side = Some(side)], q, q)

\* MailboxServer::list
server_list(app, conn, q, msg) ==
    IF conn.side = None THEN Err(app, conn, q, q, "unbound")
    ELSE Respond(app, conn, q, msg, [type |-> "nameplates", nameplates |-> get_nameplates(app)])

\* MailboxServer::allocate
server_allocate(app, conn, q, msg, new_mailbox_id) ==
    IF conn.side = None THEN Err(app, conn, q, q, "unbound")
    ELSE LET r == allocate_nameplate(app, q, conn.side[1], conn.sender, new_mailbox_id)
         IN  IF r.panic THEN Panicked(r.app, conn, r.q)
             ELSE IF r.ret = None THEN Err(r.app, conn, r.q, r.q, "no nameplate free")
             ELSE Respond(r.app, [conn EXCEPT !.nameplate_id = r.ret], r.q, msg,
                          [type |-> "allocated", nameplate_id |-> r.ret[1]])

\* MailboxServer::claim
server_claim(app, conn, q, msg, nameplate_id, new_mailbox_id) ==
    IF conn.side = None THEN Err(app, conn, q, q, "unbound")
    ELSE LET r == claim_nameplate(app, q, nameplate_id, conn.side[1], conn.sender,
                                  new_mailbox_id)
         IN  IF r.panic THEN Panicked(r.app, conn, r.q)
             ELSE IF r.ret = None THEN Err(r.app, conn, r.q, r.q, "crowded")
             ELSE Respond(r.app, [conn EXCEPT !.nameplate_id = Some(nameplate_id)], r.q, msg,
                          [type |-> "claimed", mailbox_id |-> r.ret[1]])

\* MailboxServer::release: the nameplate defaults to the one the connection
\* claimed.
server_release(app, conn, q, msg, nameplate_id) ==
    LET id == IF nameplate_id # None THEN nameplate_id ELSE conn.nameplate_id
    IN  IF conn.side = None THEN Err(app, conn, q, q, "unbound")
        ELSE IF id = None THEN Err(app, conn, q, q, "unknown nameplate")
        ELSE Respond(release_nameplate(app, id[1], conn.side[1]),
                     [conn EXCEPT !.nameplate_id = None], q, msg, [type |-> "released"])

\* MailboxServer::open
server_open(app, conn, q, mailbox_id) ==
    IF conn.side = None THEN Err(app, conn, q, q, "unbound")
    ELSE LET r == open_mailbox(app, q, mailbox_id, conn.side[1], conn.sender)
         IN  IF r.ret = None THEN Err(r.app, conn, r.q, r.q, "crowded")
             ELSE Ok(r.app, [conn EXCEPT !.mailbox_id = Some(mailbox_id)], r.q, r.q)

\* The MailboxMessage an `add` of the connection stores (the receive time is
\* not modelled).
MailboxMessage_of(conn, id, phase, body) ==
    [id |-> id, timestamp |-> 0, side |-> conn.side[1], phase |-> phase, body |-> body]

\* MailboxServer::add
server_add(app, conn, q, id, phase, body) ==
    IF conn.side = None THEN Err(app, conn, q, q, "unbound")
    ELSE IF conn.mailbox_id = None \/ ~contains_key(app.mailboxes, conn.mailbox_id[1])
    THEN Err(app, conn, q, q, "unknown mailbox")
    ELSE LET r == add_message_to_mailbox(app, q, conn.mailbox_id[1],
                                         MailboxMessage_of(conn, id, phase, body))
         IN  Ok(r.app, conn, r.q, r.q)

\* Mutant: close goes to the registry without looking for the mailbox.
server_close_unchecked(app, conn, q, msg, mailbox_id) ==
    IF conn.side = None THEN Err(app, conn, q, q, "unbound")
    ELSE LET r == close_mailbox(app, q, mailbox_id, conn.side[1])
         IN  IF r.panic THEN Panicked(r.app, conn, r.q)
             ELSE Respond(r.app, [conn EXCEPT !.mailbox_id = None], r.q, msg,
                          [type |-> "closed"])

\* MailboxServer::close
server_close(app, conn, q, msg, mailbox_id) ==
    IF conn.side = None THEN Err(app, conn, q, q, "unbound")
    ELSE IF conn.mailbox_id # Some(mailbox_id) \/ ~contains_key(app.mailboxes, mailbox_id)
    THEN Err(app, conn, q, q, "unknown mailbox")
    ELSE LET r == close_mailbox(app, q, mailbox_id, conn.side[1])
         IN  Respond(r.app, [conn EXCEPT !.mailbox_id = None], r.q, msg, [type |-> "closed"])

\* MailboxServer::ping
server_ping(app, conn, q, msg, ping) ==
    Respond(app, conn, q, msg, [type |-> "pong", ping |-> ping])

\* MailboxServer::disconnect: the cleanup of a connection whose socket closed.
server_disconnect(app, conn) ==
    LET released == IF conn.side = None THEN app
                    ELSE remove_side_from_nameplates(app, conn.side[1])
    IN  remove_subscriber_from_mailboxes(released, conn.sender)

(***************************************************************************)
(* The state machine: any caller may invoke any operation of App with any  *)
(* arguments, one call at a time.                                          *)
(***************************************************************************)
App == [nameplates |-> nameplates, mailboxes |-> mailboxes]

\* The AppRegistry: the App of each AppId.
AppRegistry == [app_id \in AppIds |-> IF app_id = FirstAppId THEN App ELSE apps[app_id]]

Unused == "unused"

subscribers_of(boxes, m) == IF m \in DOMAIN boxes THEN boxes[m].subscribers ELSE <<>>
messages_of(boxes, m) == IF m \in DOMAIN boxes THEN boxes[m].messages ELSE <<>>

\* Index of side among subscribers, 0 when it is not subscribed.
position(subscribers, side) ==
    IF \E i \in 1..Len(subscribers) : subscribers[i].side = side
    THEN CHOOSE i \in 1..Len(subscribers) : subscribers[i].side = side
    ELSE 0

\* The envelopes a call put on the channel of sender.
Sent(q, q2, sender) == SubSeq(q2[sender], Len(q[sender]) + 1, Len(q2[sender]))

\* History of what each subscriber was sent during its subscription, read
\* off the channels: a new subscriber starts with what the subscribing call
\* put on its channel; during a broadcast to its mailbox the k-th subscriber
\* on a shared channel is credited the k-th envelope (the last of them any
\* surplus as well).
NextDelivered(before_boxes, after_boxes, q, q2, call) ==
    [p \in MailboxIds \X Sides |->
        LET before == subscribers_of(before_boxes, p[1])
            after == subscribers_of(after_boxes, p[1])
            i == position(before, p[2])
            j == position(after, p[2])
        IN  IF j = 0 THEN <<>>
            ELSE IF i = 0 THEN Sent(q, q2, after[j].sender)
            ELSE IF call.op = "add_message_to_mailbox" /\ call.mailbox_id = p[1]
            THEN LET sent == Sent(q, q2, before[i].sender)
                     sharing == {x \in 1..Len(before) : before[x].sender = before[i].sender}
                     k == Cardinality({x \in sharing : x <= i})
                 IN  delivered[p] \o
                        (IF k > Len(sent) THEN <<>>
                         ELSE IF k = Cardinality(sharing) THEN SubSeq(sent, k, Len(sent))
                         ELSE <<sent[k]>>)
            ELSE delivered[p]]

QueuesWithinBound(q) == \A sender \in Senders : Len(q[sender]) <= MaxQueue

\* The effect of a call that returned (or panicked with) r.
Commit(r, call) ==
    /\ ~panicked
    /\ QueuesWithinBound(r.q)
    /\ panicked' = r.panic
    /\ nameplates' = r.app.nameplates
    /\ mailboxes' = r.app.mailboxes
    /\ queues' = r.q
    /\ last' = call
    /\ delivered' = NextDelivered(mailboxes, r.app.mailboxes, queues, r.q, call)
    /\ UNCHANGED <<connections, apps, client>>

\* The connections the accept loop of bin.rs will take, each with the sending
\* half of its own channel.
ConnectionIds == {"c1", "c2"}
sender_of == [c \in ConnectionIds |-> IF c = "c1" THEN "tx1" ELSE "tx2"]


(***************************************************************************)
(* The client. Client (client/client.rs) is not part of the sources at     *)
(* hand: its methods follow the client state machine of the specification. *)
(***************************************************************************)
ClientSide == "side1"
PeerSide == "side2"
\* A body the client can decrypt with the derived key, and one it cannot.
Sealed == <<1>>
Garbled == <<0>>

Client_new(command) ==
    [command |-> command, state |-> "Idle", nameplate_id |-> None, mailbox_id |-> None,
     seen |-> {}]

\* The program after main has connected and built its Client: nothing sent,
\* handle_incoming running, no frame received.
ClientProgram(command) ==
    [client |-> Client_new(command), sent |-> <<>>, running |-> TRUE, received |-> 0]

\* The result of a method of Client: the client, what it sent on tx, and
\* whether it returned Ok.
ClientOk(cl, sent) == [client |-> cl, sent |-> sent, ok |-> TRUE]
ClientErr(cl, sent) == [client |-> cl, sent |-> sent, ok |-> FALSE]

Client_bind(cl, sent) ==
    IF cl.state # "Idle" THEN ClientErr(cl, sent)
    ELSE ClientOk([cl EXCEPT !.state = "Bound"],
                  Append(sent, [type |-> "bind", app_id |-> "X", side |-> ClientSide]))

Client_allocate(cl, sent) ==
    IF cl.state # "Bound" THEN ClientErr(cl, sent)
    ELSE ClientOk([cl EXCEPT !.state = "Allocating"], Append(sent, [type |-> "allocate"]))

\* The receiver claims the nameplate of its code, the sender the one it was
\* allocated.
Client_claim(cl, sent, nameplate_id) ==
    IF cl.state \notin {"Bound", "Allocating"} THEN ClientErr(cl, sent)
    ELSE ClientOk([cl EXCEPT !.state = "Claiming", !.nameplate_id = Some(nameplate_id)],
                  Append(sent, [type |-> "claim", nameplate_id |-> nameplate_id]))

Client_allocated(cl, sent, nameplate_id) ==
    IF cl.state # "Allocating" THEN ClientErr(cl, sent)
    ELSE Client_claim(cl, sent, nameplate_id)

\* The mailbox is opened and the pake message sent.
Client_claimed(cl, sent, mailbox_id) ==
    IF cl.state # "Claiming" THEN ClientErr(cl, sent)
    ELSE ClientOk([cl EXCEPT !.state = "PakeSent", !.mailbox_id = Some(mailbox_id)],
                  sent \o << [type |-> "open", mailbox_id |-> mailbox_id],
                             [type |-> "add", phase |-> Pake, body |-> Sealed] >>)

\* The phases of the peer a client waits for once the key is derived.
Awaited(cl) ==
    IF cl.command = "send" THEN {Version} ELSE {Version, Message(0)}

Client_close(cl, sent, mood) ==
    ClientOk([cl EXCEPT !.state = "Closing"],
             sent \o << [type |-> "release", nameplate_id |-> cl.nameplate_id],
                        [type |-> "close", mailbox_id |-> cl.mailbox_id[1], mood |-> mood] >>)

\* A message of the mailbox: the client's own echoes and the phases it has
\* seen are dropped; the peer's pake derives the key; a body that does not
\* decrypt closes with mood scary; the last awaited phase closes with mood
\* happy.
Client_message(cl, sent, side, phase, body) ==
    IF side = ClientSide \/ phase \in cl.seen THEN ClientOk(cl, sent)
    ELSE IF phase = Pake
    THEN IF cl.state # "PakeSent" THEN ClientErr(cl, sent)
         ELSE ClientOk([cl EXCEPT !.state = "Exchange", !.seen = @ \cup {phase}],
                       sent \o << [type |-> "add", phase |-> Version, body |-> Sealed] >>
                            \o (IF cl.command = "send"
                                THEN << [type |-> "add", phase |-> Message(0), body |-> Sealed] >>
                                ELSE <<>>))
    ELSE IF cl.state # "Exchange" THEN ClientErr(cl, sent)
    ELSE IF body # Sealed THEN Client_close(cl, sent, "scary")
    ELSE IF Awaited(cl) \subseteq cl.seen \cup {phase}
    THEN Client_close([cl EXCEPT !.seen = @ \cup {phase}], sent, "happy")
    ELSE ClientOk([cl EXCEPT !.seen = @ \cup {phase}], sent)

Client_closed(cl) == [cl EXCEPT !.state = "Done"]
Client_is_closed(cl) == cl.state = "Done"

\* The nameplate of the code the receiver was given.
CodeNameplate == 1

\* The match on the type of a decoded envelope in handle_incoming, up to its
\* last arm.
HandleEnvelope(program, msg) ==
    LET cl == program.client
        sent == program.sent
        Of(r) == [program EXCEPT !.client = r.client, !.sent = r.sent]
    IN  CASE msg.ty.type = "welcome" ->
                 IF msg.ty.welcome.error # None THEN [program EXCEPT !.running = FALSE]
                 ELSE LET bound == Client_bind(cl, sent)
                      IN  IF ~bound.ok THEN Of(bound)
                          ELSE IF cl.command = "send"
                          THEN Of(Client_allocate(bound.client, bound.sent))
                          ELSE Of(Client_claim(bound.client, bound.sent, CodeNameplate))
          [] msg.ty.type = "allocated" -> Of(Client_allocated(cl, sent, msg.ty.nameplate_id))
          [] msg.ty.type = "claimed" -> Of(Client_claimed(cl, sent, msg.ty.mailbox_id))
          [] msg.ty.type = "message" ->
                 Of(Client_message(cl, sent, msg.ty.side, msg.ty.phase, msg.ty.body))
          [] msg.ty.type = "closed" -> [program EXCEPT !.client = Client_closed(cl)]
          [] msg.ty.type \in {"nameplates", "released", "ack", "pong"} -> program
          [] msg.ty.type = "error" -> program

\* What the closure of try_for_each returns after the match: an Err, which
\* ends handle_incoming, once the client is closed.
AfterEnvelope(program) ==
    IF program.running /\ Client_is_closed(program.client)
    THEN [program EXCEPT !.running = FALSE]
    ELSE program

Init ==
    /\ nameplates = EmptyMap
    /\ mailboxes = EmptyMap
    /\ queues = [sender \in Senders |-> <<>>]
    /\ panicked = FALSE
    /\ last = [op |-> "default"]
    /\ delivered = [p \in MailboxIds \X Sides |-> <<>>]
    /\ appended = [m \in MailboxIds |-> <<>>]
    /\ connections = [c \in ConnectionIds |->
                         [conn |-> Connection_new(sender_of[c]), pc |-> "listening",
                          msg |-> None, frames |-> 0, log |-> <<>>]]
    /\ apps = [app_id \in AppIds \ {FirstAppId} |->
                  [nameplates |-> EmptyMap, mailboxes |-> EmptyMap]]
    /\ client = ClientProgram("send")

AllocateNameplate(side, sender) ==
    \E new_mailbox_id \in
            IF first_free(App, 1) = None THEN {Unused} ELSE generate_mailbox_id(App) :
        LET r == allocate_nameplate(App, queues, side, sender, new_mailbox_id)
        IN  /\ Commit(r, [op |-> "allocate_nameplate", side |-> side, sender |-> sender,
                          ret |-> r.ret])
            /\ UNCHANGED appended

ClaimNameplate(nameplate_id, side, sender) ==
    \E new_mailbox_id \in
            IF contains_key(nameplates, nameplate_id) THEN {Unused}
            ELSE generate_mailbox_id(App) :
        LET r == claim_nameplate(App, queues, nameplate_id, side, sender, new_mailbox_id)
        IN  /\ Commit(r, [op |-> "claim_nameplate", nameplate_id |-> nameplate_id,
                          side |-> side, sender |-> sender, ret |-> r.ret,
                          created |-> ~contains_key(nameplates, nameplate_id)])
            /\ UNCHANGED appended

ReleaseNameplate(nameplate_id, side) ==
    /\ Commit(Returned(release_nameplate(App, nameplate_id, side), queues, Unit),
              [op |-> "release_nameplate", nameplate_id |-> nameplate_id, side |-> side,
               held |-> /\ contains_key(nameplates, nameplate_id)
                        /\ contains(nameplates[nameplate_id].sides, side)])
    /\ UNCHANGED appended

OpenMailbox(mailbox_id, side, sender) ==
    LET r == open_mailbox(App, queues, mailbox_id, side, sender)
    IN  /\ Commit(r, [op |-> "open_mailbox", mailbox_id |-> mailbox_id, side |-> side,
                      sender |-> sender, ret |-> r.ret,
                      new |-> position(subscribers_of(mailboxes, mailbox_id), side) = 0])
        /\ UNCHANGED appended

CloseMailbox(mailbox_id, side) ==
    LET r == close_mailbox(App, queues, mailbox_id, side)
    IN  /\ Commit(r, [op |-> "close_mailbox", mailbox_id |-> mailbox_id, side |-> side])
        /\ UNCHANGED appended

AddMessageToMailbox(mailbox_id, message) ==
    LET r == add_message_to_mailbox(App, queues, mailbox_id, message)
    IN  /\ Len(appended[mailbox_id]) < MaxMessages
        /\ Commit(r, [op |-> "add_message_to_mailbox", mailbox_id |-> mailbox_id,
                      message |-> message])
        /\ appended' = IF r.panic THEN appended
                       ELSE [appended EXCEPT ![mailbox_id] = Append(@, message)]

RemoveSideFromNameplates(side) ==
    /\ Commit(Returned(remove_side_from_nameplates(App, side), queues, Unit),
              [op |-> "remove_side_from_nameplates", side |-> side])
    /\ UNCHANGED appended

RemoveSubscriberFromMailboxes(sender) ==
    /\ Commit(Returned(remove_subscriber_from_mailboxes(App, sender), queues, Unit),
              [op |-> "remove_subscriber_from_mailboxes", sender |-> sender,
               sides |-> UNION { {mailboxes[m].subscribers[i].side :
                                     i \in {x \in 1..Len(mailboxes[m].subscribers) :
                                               mailboxes[m].subscribers[x].sender = sender}} :
                                 m \in DOMAIN mailboxes }])
    /\ UNCHANGED appended

(***************************************************************************)
(* handle_connection of bin.rs. A decoded command is handled in two        *)
(* critical sections of the server Mutex, the ack and then the dispatch;   *)
(* other connections may run between the two.                              *)
(***************************************************************************)
\* The match on msg.ty.
dispatch(app, conn, q, msg, new_mailbox_id) ==
    CASE msg.ty.type = "bind" -> server_bind(app, conn, q, msg.ty.app_id, msg.ty.side)
      [] msg.ty.type = "submit-permissions" -> Ok(app, conn, q, q)
      [] msg.ty.type = "list" -> server_list(app, conn, q, msg)
      [] msg.ty.type = "allocate" -> server_allocate(app, conn, q, msg, new_mailbox_id)
      [] msg.ty.type = "claim" ->
             server_claim(app, conn, q, msg, msg.ty.nameplate_id, new_mailbox_id)
      [] msg.ty.type = "release" -> server_release(app, conn, q, msg, msg.ty.nameplate_id)
      [] msg.ty.type = "open" -> server_open(app, conn, q, msg.ty.mailbox_id)
      [] msg.ty.type = "add" -> server_add(app, conn, q, msg.id, msg.ty.phase, msg.ty.body)
      [] msg.ty.type = "close" -> server_close(app, conn, q, msg, msg.ty.mailbox_id)
      [] msg.ty.type = "ping" -> server_ping(app, conn, q, msg, msg.ty.ping)

\* Mutant: an Err is logged but not sent to the caller.
report_swallows_error(r, msg) == r

\* The match on the result of the dispatch: an Err is sent to the caller as
\* an error envelope, and the handler goes on with the next frame.
report(r, msg) ==
    IF r.err = None THEN r
    ELSE [r EXCEPT !.q = unbounded_send(@, r.conn.sender, ServerMessage_error(msg, r.err[1]))]

\* Whether the dispatch of msg reaches generate_mailbox_id.
generates_mailbox_id(app, conn, msg) ==
    /\ conn.side # None
    /\ \/ msg.ty.type = "allocate" /\ first_free(app, 1) # None
       \/ msg.ty.type = "claim" /\ ~contains_key(app.nameplates, msg.ty.nameplate_id)

\* The id of the k-th frame of connection c (ids are chosen by the client).
FrameId(c, k) == c \o "-" \o ToString(k)

ServerCommit(c, app, q, q_app, panic, call) ==
    /\ ~panicked
    /\ panicked' = panic
    /\ nameplates' = app.nameplates
    /\ mailboxes' = app.mailboxes
    /\ queues' = q
    /\ last' = call
    /\ delivered' = NextDelivered(mailboxes, app.mailboxes, queues, q_app, call)
    /\ UNCHANGED client

\* The commit of a call served under app_id: the App goes back to its place
\* in the registry.
RegistryCommit(c, app_id, app, q, q_app, panic, call) ==
    IF app_id = FirstAppId
    THEN /\ ServerCommit(c, app, q, q_app, panic, call)
         /\ UNCHANGED apps
    ELSE /\ ServerCommit(c, App, q, queues, panic, call)
         /\ apps' = [apps EXCEPT ![app_id] = app]

\* accept_async, Connection::new and MailboxServer::connect
Accept(c) ==
    /\ connections[c].pc = "listening"
    /\ ServerCommit(c, App, server_connect(connections[c].conn, queues), queues, FALSE,
                    [op |-> "accept", c |-> c])
    /\ connections' = [connections EXCEPT ![c].pc = "recv"]
    /\ UNCHANGED <<appended, apps>>

\* Mutant: a frame that does not decode ends the handler, which runs the
\* disconnect cleanup.
MalformedFrame_disconnects(c) ==
    /\ connections[c].pc = "recv"
    /\ connections[c].frames < MaxFrames
    /\ LET app_id == app_id_of(connections[c].conn)
       IN  RegistryCommit(c, app_id, server_disconnect(AppRegistry[app_id], connections[c].conn),
                          queues, queues, FALSE, [op |-> "malformed", c |-> c])
    /\ connections' = [connections EXCEPT ![c].frames = @ + 1, ![c].pc = "closed"]
    /\ UNCHANGED appended

\* A text or binary frame that serde_json does not decode to a ClientMessage.
MalformedFrame(c) ==
    /\ connections[c].pc = "recv"
    /\ connections[c].frames < MaxFrames
    /\ ServerCommit(c, App, queues, queues, FALSE, [op |-> "malformed", c |-> c])
    /\ connections' = [connections EXCEPT ![c].frames = @ + 1]
    /\ UNCHANGED <<appended, apps>>

\* A frame that decodes to a command: the command is acked.
ReceiveCommand(c, ty) ==
    LET msg == [id |-> FrameId(c, connections[c].frames + 1), ty |-> ty]
    IN  /\ connections[c].pc = "recv"
        /\ connections[c].frames < MaxFrames
        /\ ServerCommit(c, App, server_ack(connections[c].conn, msg, queues), queues, FALSE,
                        [op |-> "ack", c |-> c, msg |-> msg])
        /\ connections' = [connections EXCEPT ![c].pc = "acked", ![c].msg = Some(msg),
                                              ![c].frames = @ + 1, ![c].log = Append(@, msg)]
        /\ UNCHANGED <<appended, apps>>

\* The channels whose receiving half is gone. rx is moved into
\* forward_to_websocket, which is dropped together with the result of
\* future::select, before disconnect is called.
dropped_receivers ==
    {sender_of[c] : c \in {x \in ConnectionIds : connections[x].pc \in {"dropped", "closed"}}}

sends_to_dropped(subscribers, dropped) ==
    \E i \in 1..Len(subscribers) : subscribers[i].sender \in dropped

\* The loop of add_message when unbounded_send returns Err, on a channel
\* whose receiver is gone, and the expect panics: the subscribers before that
\* one have been sent the message.
RECURSIVE forward_until_dropped(_, _, _, _)
forward_until_dropped(q, subscribers, m, dropped) ==
    IF subscribers = <<>> \/ Head(subscribers).sender \in dropped THEN q
    ELSE forward_until_dropped(unbounded_send(q, Head(subscribers).sender, m),
                               Tail(subscribers), m, dropped)

\* The acked command is dispatched and its result reported. An add that
\* reaches a subscriber whose receiver is gone panics inside the registry,
\* with the Mutex held and nothing stored.
Dispatch(c) ==
    /\ connections[c].pc = "acked"
    /\ LET conn == connections[c].conn
           msg == connections[c].msg[1]
           app_id == app_id_of(conn)
           app == AppRegistry[app_id]
       IN  \E new_mailbox_id \in
                   IF generates_mailbox_id(app, conn, msg) THEN generate_mailbox_id(app)
                   ELSE {Unused} :
               LET dispatched == dispatch(app, conn, queues, msg, new_mailbox_id)
                   aborted == /\ msg.ty.type = "add"
                              /\ dispatched.err = None
                              /\ sends_to_dropped(app.mailboxes[conn.mailbox_id[1]].subscribers,
                                                  dropped_receivers)
                   r == IF aborted
                        THEN Panicked(app, conn,
                                 forward_until_dropped(queues,
                                     app.mailboxes[conn.mailbox_id[1]].subscribers,
                                     forward_msg(MailboxMessage_of(conn, msg.id, msg.ty.phase,
                                                                   msg.ty.body)),
                                     dropped_receivers))
                        ELSE report(dispatched, msg)
                   added == msg.ty.type = "add" /\ r.err = None /\ ~aborted
                   first == app_id = FirstAppId
               IN  /\ RegistryCommit(c, app_id, r.app, r.q, r.q_app, r.panic,
                          [op |-> IF aborted THEN "send_failed"
                                  ELSE IF added /\ first THEN "add_message_to_mailbox"
                                  ELSE "dispatch",
                           c |-> c, msg |-> msg, err |-> r.err,
                           mailbox_id |-> IF added /\ first THEN conn.mailbox_id[1]
                                          ELSE Unused])
                   /\ connections' = [connections EXCEPT ![c].conn = r.conn, ![c].pc = "recv",
                                                         ![c].msg = None]
                   /\ appended' = IF added /\ first
                                  THEN [appended EXCEPT ![conn.mailbox_id[1]] =
                                           Append(@, MailboxMessage_of(conn, msg.id, msg.ty.phase,
                                                                      msg.ty.body))]
                                  ELSE appended

\* future::select returns, because the socket closed or the forwarding to it
\* failed, and its result is dropped at the end of the statement: the
\* receiving half of the connection's channel is gone.
SelectReturns(c) ==
    /\ connections[c].pc = "recv"
    /\ ServerCommit(c, App, queues, queues, FALSE, [op |-> "select", c |-> c])
    /\ connections' = [connections EXCEPT ![c].pc = "dropped"]
    /\ UNCHANGED <<appended, apps>>

\* The statement after the select: the Mutex is taken again and
\* MailboxServer::disconnect called.
DisconnectAfterSelect(c) ==
    /\ connections[c].pc = "dropped"
    /\ LET app_id == app_id_of(connections[c].conn)
       IN  RegistryCommit(c, app_id, server_disconnect(AppRegistry[app_id], connections[c].conn),
                          queues, queues, FALSE, [op |-> "disconnect", c |-> c])
    /\ connections' = [connections EXCEPT ![c].pc = "closed"]
    /\ UNCHANGED appended

\* The socket closed: the select and MailboxServer::disconnect, with no other
\* connection served between the two.
Disconnect(c) ==
    /\ connections[c].pc = "recv"
    /\ LET app_id == app_id_of(connections[c].conn)
       IN  RegistryCommit(c, app_id, server_disconnect(AppRegistry[app_id], connections[c].conn),
                          queues, queues, FALSE, [op |-> "disconnect", c |-> c])
    /\ connections' = [connections EXCEPT ![c].pc = "closed"]
    /\ UNCHANGED appended

(***************************************************************************)
(* ServerSpec: two connections. The client of c1 sends any of bind (as     *)
(* either side), open, add and ping in any order; the client of c2 follows *)
(* the protocol as side2: bind, then open, then add.                       *)
(***************************************************************************)
Bind(side) == [type |-> "bind", app_id |-> "X", side |-> side]
BindTo(app_id, side) == [type |-> "bind", app_id |-> app_id, side |-> side]
Claim(nameplate_id) == [type |-> "claim", nameplate_id |-> nameplate_id]
Open(mailbox_id) == [type |-> "open", mailbox_id |-> mailbox_id]
Add(phase, body) == [type |-> "add", phase |-> phase, body |-> body]
Ping(ping) == [type |-> "ping", ping |-> ping]

PeerCommands(c) ==
    IF connections[c].conn.side = None THEN {Bind("side2")}
    ELSE IF connections[c].conn.mailbox_id = None THEN {Open(1)}
    ELSE {Add(Version, <<2>>)}

Commands(c) ==
    IF c = "c1"
    THEN {Bind("side1"), Bind("side2"), Open(1), Add(Pake, <<1>>), Ping(7)}
    ELSE PeerCommands(c)

ServerNext ==
    \/ \E c \in ConnectionIds : Accept(c)
    \/ \E c \in ConnectionIds : MalformedFrame(c)
    \/ \E c \in ConnectionIds : \E ty \in Commands(c) : ReceiveCommand(c, ty)
    \/ \E c \in ConnectionIds : Dispatch(c)
    \/ \E c \in ConnectionIds : Disconnect(c)

ServerSpec == Init /\ [][ServerNext]_vars

(***************************************************************************)
(* DisconnectSpec: as ServerSpec, but the client of c1 sends any of bind   *)
(* (as side1), claim and open.                                             *)
(***************************************************************************)
DisconnectCommands(c) ==
    IF c = "c1"
    THEN {Bind("side1"), Claim(1), Open(1)}
    ELSE PeerCommands(c)

DisconnectNext ==
    \/ \E c \in ConnectionIds : Accept(c)
    \/ \E c \in ConnectionIds : MalformedFrame(c)
    \/ \E c \in ConnectionIds : \E ty \in DisconnectCommands(c) : ReceiveCommand(c, ty)
    \/ \E c \in ConnectionIds : Dispatch(c)
    \/ \E c \in ConnectionIds : Disconnect(c)

DisconnectSpec == Init /\ [][DisconnectNext]_vars

(***************************************************************************)
(* ShutdownSpec: the handlers of the two connections run on the worker     *)
(* threads of the runtime, so another connection can take the Mutex        *)
(* between the select of a connection and its disconnect. The client of c1 *)
(* binds as side1, opens the mailbox and adds to it; the client of c2      *)
(* follows the protocol as side2.                                          *)
(***************************************************************************)
ShutdownCommands(c) ==
    IF c = "c1"
    THEN IF connections[c].conn.side = None THEN {Bind("side1")}
         ELSE IF connections[c].conn.mailbox_id = None THEN {Open(1)}
         ELSE {Add(Pake, <<1>>)}
    ELSE PeerCommands(c)

ShutdownNext ==
    \/ \E c \in ConnectionIds : Accept(c)
    \/ \E c \in ConnectionIds : \E ty \in ShutdownCommands(c) : ReceiveCommand(c, ty)
    \/ \E c \in ConnectionIds : Dispatch(c)
    \/ \E c \in ConnectionIds : SelectReturns(c)
    \/ \E c \in ConnectionIds : DisconnectAfterSelect(c)

ShutdownSpec == Init /\ [][ShutdownNext]_vars

(***************************************************************************)
(* Spec: the nameplate operations together with open, close and the        *)
(* disconnect cleanup, called by two sides; side1 calls on two channels,   *)
(* and channel tx2 is used by both sides.                                  *)
(***************************************************************************)
Callers ==
    { [side |-> "side1", sender |-> "tx1"],
      [side |-> "side2", sender |-> "tx2"],
      [side |-> "side1", sender |-> "tx2"] }
CallerSides == {c.side : c \in Callers}

Next ==
    \/ \E c \in Callers :
           AllocateNameplate(c.side, c.sender)
    \/ \E nameplate_id \in NameplateIdInputs, c \in Callers :
           ClaimNameplate(nameplate_id, c.side, c.sender)
    \/ \E nameplate_id \in NameplateIdInputs, side \in CallerSides :
           ReleaseNameplate(nameplate_id, side)
    \/ \E side \in CallerSides :
           RemoveSideFromNameplates(side)
    \/ \E mailbox_id \in MailboxIds, c \in Callers :
           OpenMailbox(mailbox_id, c.side, c.sender)
    \/ \E mailbox_id \in MailboxIds, side \in CallerSides :
           CloseMailbox(mailbox_id, side)
    \/ \E sender \in Senders :
           RemoveSubscriberFromMailboxes(sender)

Spec == Init /\ [][Next]_vars

(***************************************************************************)
(* MailboxSpec: the mailbox operations alone (open, close, add and the     *)
(* disconnect cleanup) on one mailbox id, called by two sides, each on     *)
(* either channel.                                                         *)
(***************************************************************************)
MailboxSides == {"side1", "side2"}
TheMailbox == {1}

MailboxNext ==
    \/ \E mailbox_id \in TheMailbox, side \in MailboxSides, sender \in Senders :
           OpenMailbox(mailbox_id, side, sender)
    \/ \E mailbox_id \in TheMailbox, side \in MailboxSides :
           CloseMailbox(mailbox_id, side)
    \/ \E mailbox_id \in TheMailbox, message \in MessageInputs :
           AddMessageToMailbox(mailbox_id, message)
    \/ \E sender \in Senders :
           RemoveSubscriberFromMailboxes(sender)

MailboxSpec == Init /\ [][MailboxNext]_vars

(***************************************************************************)
(* CrowdedSpec: three sides, each on a connection of its own channel       *)
(* except that side3 shares channel tx2, claim and release one nameplate   *)
(* id and open and close the mailboxes.                                    *)
(***************************************************************************)
CrowdedCallers ==
    { [side |-> "side1", sender |-> "tx1"],
      [side |-> "side2", sender |-> "tx2"],
      [side |-> "side3", sender |-> "tx2"] }
TheNameplate == {1}

CrowdedNext ==
    \/ \E nameplate_id \in TheNameplate, c \in CrowdedCallers :
           ClaimNameplate(nameplate_id, c.side, c.sender)
    \/ \E nameplate_id \in TheNameplate, c \in CrowdedCallers :
           ReleaseNameplate(nameplate_id, c.side)
    \/ \E mailbox_id \in MailboxIds, c \in CrowdedCallers :
           OpenMailbox(mailbox_id, c.side, c.sender)
    \/ \E mailbox_id \in MailboxIds, c \in CrowdedCallers :
           CloseMailbox(mailbox_id, c.side)

CrowdedSpec == Init /\ [][CrowdedNext]_vars

(***************************************************************************)
(* PeersSpec: the allocate, claim, release, open, add and close of two     *)
(* peers, each on its own channel, in any order, on one nameplate id and   *)
(* one mailbox id (allocate takes whichever ids are free).                 *)
(***************************************************************************)
Peers ==
    { [side |-> "side1", sender |-> "tx1"],
      [side |-> "side2", sender |-> "tx2"] }

PakeMessages == {message \in MessageInputs : message.phase = Pake}

PeersNext ==
    \/ \E c \in Peers :
           AllocateNameplate(c.side, c.sender)
    \/ \E nameplate_id \in TheNameplate, c \in Peers :
           ClaimNameplate(nameplate_id, c.side, c.sender)
    \/ \E nameplate_id \in TheNameplate, c \in Peers :
           ReleaseNameplate(nameplate_id, c.side)
    \/ \E mailbox_id \in TheMailbox, c \in Peers :
           OpenMailbox(mailbox_id, c.side, c.sender)
    \/ \E mailbox_id \in TheMailbox, message \in PakeMessages :
           AddMessageToMailbox(mailbox_id, message)
    \/ \E mailbox_id \in TheMailbox, c \in Peers :
           CloseMailbox(mailbox_id, c.side)

PeersSpec == Init /\ [][PeersNext]_vars

(***************************************************************************)
(* SweepSpec: two peers, each on its own channel, open both mailbox ids    *)
(* and add to them, and the disconnect cleanup of either channel runs in   *)
(* between, which can leave mailboxes without a subscriber.                *)
(***************************************************************************)
SweepNext ==
    \/ \E mailbox_id \in MailboxIds, c \in Peers :
           OpenMailbox(mailbox_id, c.side, c.sender)
    \/ \E mailbox_id \in MailboxIds, message \in PakeMessages :
           AddMessageToMailbox(mailbox_id, message)
    \/ \E sender \in Senders :
           RemoveSubscriberFromMailboxes(sender)

SweepSpec == Init /\ [][SweepNext]_vars

(***************************************************************************)
(* CleanupSpec: two sides claim one nameplate id, open one mailbox id and  *)
(* add to it; side1 calls on two channels, and channel tx2 is used by both *)
(* sides. The disconnect cleanup of either channel runs in between.        *)
(***************************************************************************)
CleanupNext ==
    \/ \E nameplate_id \in TheNameplate, c \in Callers :
           ClaimNameplate(nameplate_id, c.side, c.sender)
    \/ \E mailbox_id \in TheMailbox, c \in Callers :
           OpenMailbox(mailbox_id, c.side, c.sender)
    \/ \E mailbox_id \in TheMailbox, message \in PakeMessages :
           AddMessageToMailbox(mailbox_id, message)
    \/ \E sender \in Senders :
           RemoveSubscriberFromMailboxes(sender)

CleanupSpec == Init /\ [][CleanupNext]_vars

(***************************************************************************)
(* RangeSpec: the nameplate operations with the ids a claim can carry. The *)
(* id of a claim is the usize the client wrote, so it can lie below the    *)
(* range (0) and at its excluded end.                                      *)
(***************************************************************************)
ClaimedIds == 0..NameplateIdEnd

RangeNext ==
    \/ \E c \in Callers :
           AllocateNameplate(c.side, c.sender)
    \/ \E nameplate_id \in ClaimedIds, c \in Callers :
           ClaimNameplate(nameplate_id, c.side, c.sender)
    \/ \E nameplate_id \in ClaimedIds, side \in CallerSides :
           ReleaseNameplate(nameplate_id, side)
    \/ \E mailbox_id \in MailboxIds, side \in CallerSides :
           CloseMailbox(mailbox_id, side)

RangeSpec == Init /\ [][RangeNext]_vars

(***************************************************************************)
(* UnboundSpec: the client of c1 sends any command that needs a bound      *)
(* connection, or binds; its peer sends well-formed frames only, binds and *)
(* opens the mailbox.                                                      *)
(***************************************************************************)
List == [type |-> "list"]
Allocate == [type |-> "allocate"]
Release(nameplate_id) == [type |-> "release", nameplate_id |-> nameplate_id]
Close(mailbox_id) == [type |-> "close", mailbox_id |-> mailbox_id, mood |-> "happy"]
SubmitPermissions == [type |-> "submit-permissions"]

UnboundCommands(c) ==
    IF c = "c1"
    THEN IF connections[c].conn.side = None
         THEN {Bind("side1"), List, Allocate, Claim(1), Release(None),
               Open(1), Add(Pake, <<1>>), Close(1)}
         ELSE {}
    ELSE IF connections[c].conn.side = None THEN {Bind("side2")}
    ELSE IF connections[c].conn.mailbox_id = None THEN {Open(1)}
    ELSE {}

UnboundNext ==
    \/ \E c \in ConnectionIds : Accept(c)
    \/ MalformedFrame("c1")
    \/ \E c \in ConnectionIds : \E ty \in UnboundCommands(c) : ReceiveCommand(c, ty)
    \/ \E c \in ConnectionIds : Dispatch(c)
    \/ \E c \in ConnectionIds : Disconnect(c)

UnboundSpec == Init /\ [][UnboundNext]_vars

(***************************************************************************)
(* ErrorsSpec: two connections of the same side. The client of c1 binds    *)
(* and then opens, adds to and closes the mailbox in any order; the client *)
(* of c2 binds as side1 as well, opens the mailbox and closes it.          *)
(***************************************************************************)
ErrorsCommands(c) ==
    IF connections[c].conn.side = None THEN {Bind("side1")}
    ELSE IF c = "c1" THEN {Open(1), Add(Pake, <<1>>), Close(1)}
    ELSE IF connections[c].conn.mailbox_id = None THEN {Open(1)}
    ELSE {Close(1)}

ErrorsNext ==
    \/ \E c \in ConnectionIds : Accept(c)
    \/ \E c \in ConnectionIds : MalformedFrame(c)
    \/ \E c \in ConnectionIds : \E ty \in ErrorsCommands(c) : ReceiveCommand(c, ty)
    \/ \E c \in ConnectionIds : Dispatch(c)
    \/ \E c \in ConnectionIds : Disconnect(c)

ErrorsSpec == Init /\ [][ErrorsNext]_vars

(***************************************************************************)
(* RaceSpec: two connections bind to the same AppId, c1 as either side and *)
(* c2 as side2, and then each sends allocate and claim of nameplate 1 in   *)
(* any order; the acks and dispatches of the two interleave freely.        *)
(***************************************************************************)
RaceCommands(c) ==
    IF connections[c].conn.side = None
    THEN IF c = "c1" THEN {Bind("side1"), Bind("side2")} ELSE {Bind("side2")}
    ELSE {Allocate, Claim(1)}

RaceNext ==
    \/ \E c \in ConnectionIds : Accept(c)
    \/ \E c \in ConnectionIds : \E ty \in RaceCommands(c) : ReceiveCommand(c, ty)
    \/ \E c \in ConnectionIds : Dispatch(c)

RaceSpec == Init /\ [][RaceNext]_vars

(***************************************************************************)
(* AppsSpec: two connections bound to different AppIds under the same side *)
(* name and using the same ids. The client of c1 sends allocate, open,     *)
(* add, list and close in any order; the client of c2 sends well-formed    *)
(* frames only: it allocates nameplates or opens the mailbox, then adds    *)
(* messages or lists.                                                      *)
(***************************************************************************)
AppIdOfClient == [c \in ConnectionIds |-> IF c = "c1" THEN "X" ELSE "Y"]

AppsCommands(c) ==
    IF connections[c].conn.side = None THEN {BindTo(AppIdOfClient[c], "side1")}
    ELSE IF c = "c1" THEN {Allocate, Open(1), Add(Pake, <<1>>), List, Close(1)}
    ELSE IF connections[c].conn.mailbox_id = None THEN {Allocate, Open(1)}
    ELSE {Add(Version, <<2>>), List}

AppsNext ==
    \/ \E c \in ConnectionIds : Accept(c)
    \/ MalformedFrame("c1")
    \/ \E c \in ConnectionIds : \E ty \in AppsCommands(c) : ReceiveCommand(c, ty)
    \/ \E c \in ConnectionIds : Dispatch(c)
    \/ \E c \in ConnectionIds : Disconnect(c)

AppsSpec == Init /\ [][AppsNext]_vars

(***************************************************************************)
(* message.rs: the serde derives of the envelopes. A JSON document is the  *)
(* record of the keys it has; a JSON string that stands for a number, a    *)
(* phase or a body is the sequence of its characters, any other string     *)
(* (ids, sides, free text) is carried whole. server_tx is not part of the  *)
(* envelopes of the model.                                                 *)
(***************************************************************************)
Digits == <<"0", "1", "2", "3", "4", "5", "6", "7", "8", "9">>
HexDigits == Digits \o <<"a", "b", "c", "d", "e", "f">>

\* Display for usize
RECURSIVE to_string(_)
to_string(n) ==
    IF n < 10 THEN <<Digits[n + 1]>>
    ELSE Append(to_string(n \div 10), Digits[(n % 10) + 1])

\* FromStr for usize: Err (None) on an empty string or a character that is
\* no digit.
RECURSIVE parse_digits(_, _)
parse_digits(chars, acc) ==
    IF chars = <<>> THEN acc
    ELSE parse_digits(Tail(chars),
                      acc * 10 + (CHOOSE d \in 0..9 : Digits[d + 1] = Head(chars)))
from_str(chars) ==
    IF chars # <<>> /\ \A i \in 1..Len(chars) : \E d \in 0..9 : Digits[d + 1] = chars[i]
    THEN Some(parse_digits(chars, 0))
    ELSE None

\* serde_with::hex::Hex, serialization: two lowercase digits per byte.
RECURSIVE hex_encode(_)
hex_encode(bytes) ==
    IF bytes = <<>> THEN <<>>
    ELSE <<HexDigits[(Head(bytes) \div 16) + 1], HexDigits[(Head(bytes) % 16) + 1]>>
             \o hex_encode(Tail(bytes))

\* serde_with::hex::Hex, deserialization: Err (None) on an odd length or a
\* character that is no hex digit.
RECURSIVE hex_bytes(_)
hex_bytes(chars) ==
    IF chars = <<>> THEN <<>>
    ELSE << (CHOOSE v \in 0..15 : HexDigits[v + 1] = chars[1]) * 16
            + (CHOOSE v \in 0..15 : HexDigits[v + 1] = chars[2]) >>
             \o hex_bytes(SubSeq(chars, 3, Len(chars)))
hex_decode(chars) ==
    IF /\ Len(chars) % 2 = 0
       /\ \A i \in 1..Len(chars) : \E v \in 0..15 : HexDigits[v + 1] = chars[i]
    THEN Some(hex_bytes(chars))
    ELSE None

\* enum Phase, rename_all = "lowercase", Message untagged as DisplayFromStr
PakeName == <<"p", "a", "k", "e">>
VersionName == <<"v", "e", "r", "s", "i", "o", "n">>

\* Mutant: the Message variant is written under its name, as the tagged
\* variants are.
serialize_Phase_tagged(phase) ==
    CASE phase.tag = "pake" -> PakeName
      [] phase.tag = "version" -> VersionName
      [] phase.tag = "message" -> <<"m", "e", "s", "s", "a", "g", "e">>

serialize_Phase(phase) ==
    CASE phase.tag = "pake" -> PakeName
      [] phase.tag = "version" -> VersionName
      [] phase.tag = "message" -> to_string(phase.n)

deserialize_Phase(chars) ==
    IF chars = PakeName THEN Some(Pake)
    ELSE IF chars = VersionName THEN Some(Version)
    ELSE IF from_str(chars) # None THEN Some(Message(from_str(chars)[1]))
    ELSE None

\* JSON null and a JSON string, where a key can hold either.
JsonNull == [kind |-> "null"]
JsonString(chars) == [kind |-> "string", chars |-> chars]

\* enum ClientMessageType, tag = "type", rename_all = "lowercase"
serialize_ClientMessageType(ty) ==
    CASE ty.type = "submit-permissions" -> [type |-> "submitpermissions"]
      [] ty.type = "bind" -> [type |-> "bind", appid |-> ty.app_id, side |-> ty.side]
      [] ty.type = "list" -> [type |-> "list"]
      [] ty.type = "allocate" -> [type |-> "allocate"]
      [] ty.type = "claim" -> [type |-> "claim", nameplate |-> to_string(ty.nameplate_id)]
      [] ty.type = "release" ->
             [type |-> "release",
              nameplate |-> IF ty.nameplate_id = None THEN JsonNull
                            ELSE JsonString(to_string(ty.nameplate_id[1]))]
      [] ty.type = "open" -> [type |-> "open", mailbox |-> ty.mailbox_id]
      [] ty.type = "add" ->
             [type |-> "add", phase |-> serialize_Phase(ty.phase), body |-> hex_encode(ty.body)]
      [] ty.type = "close" -> [type |-> "close", mailbox |-> ty.mailbox_id, mood |-> ty.mood]
      [] ty.type = "ping" -> [type |-> "ping", ping |-> ty.ping]

deserialize_ClientMessageType(json) ==
    IF "type" \notin DOMAIN json THEN None
    ELSE CASE json.type = "submitpermissions" -> Some([type |-> "submit-permissions"])
           [] json.type = "bind" ->
                  IF {"appid", "side"} \subseteq DOMAIN json
                  THEN Some([type |-> "bind", app_id |-> json.appid, side |-> json.side])
                  ELSE None
           [] json.type = "list" -> Some([type |-> "list"])
           [] json.type = "allocate" -> Some([type |-> "allocate"])
           [] json.type = "claim" ->
                  IF "nameplate" \in DOMAIN json /\ from_str(json.nameplate) # None
                  THEN Some([type |-> "claim", nameplate_id |-> from_str(json.nameplate)[1]])
                  ELSE None
           [] json.type = "release" ->
                  IF "nameplate" \notin DOMAIN json THEN None
                  ELSE IF json.nameplate.kind = "null"
                  THEN Some([type |-> "release", nameplate_id |-> None])
                  ELSE IF from_str(json.nameplate.chars) # None
                  THEN Some([type |-> "release",
                             nameplate_id |-> Some(from_str(json.nameplate.chars)[1])])
                  ELSE None
           [] json.type = "open" ->
                  IF "mailbox" \in DOMAIN json
                  THEN Some([type |-> "open", mailbox_id |-> json.mailbox])
                  ELSE None
           [] json.type = "add" ->
                  IF /\ {"phase", "body"} \subseteq DOMAIN json
                     /\ deserialize_Phase(json.phase) # None
                     /\ hex_decode(json.body) # None
                  THEN Some([type |-> "add", phase |-> deserialize_Phase(json.phase)[1],
                             body |-> hex_decode(json.body)[1]])
                  ELSE None
           [] json.type = "close" ->
                  IF /\ {"mailbox", "mood"} \subseteq DOMAIN json
                     /\ json.mood \in {"happy", "lonely", "scary", "errory"}
                  THEN Some([type |-> "close", mailbox_id |-> json.mailbox, mood |-> json.mood])
                  ELSE None
           [] json.type = "ping" ->
                  IF "ping" \in DOMAIN json THEN Some([type |-> "ping", ping |-> json.ping])
                  ELSE None
           [] OTHER -> None

\* struct ClientMessage: id, and ty flattened
serialize_ClientMessage(msg) == [id |-> msg.id] @@ serialize_ClientMessageType(msg.ty)

deserialize_ClientMessage(json) ==
    IF "id" \notin DOMAIN json \/ deserialize_ClientMessageType(json) = None THEN None
    ELSE Some([id |-> json.id, ty |-> deserialize_ClientMessageType(json)[1]])

\* A key that is skipped when its Option is None.
skip_none(key, option) == IF option = None THEN <<>> ELSE (key :> option[1])
get_option(json, key) == IF key \in DOMAIN json THEN Some(json[key]) ELSE None

\* struct WelcomeInfo: motd and error skipped if None, permission_required
\* skipped if empty and defaulted.
serialize_WelcomeInfo(welcome) ==
    skip_none("motd", welcome.motd) @@ skip_none("error", welcome.error) @@
    (IF welcome.permission_required = <<>> THEN <<>>
     ELSE ("permission_required" :> welcome.permission_required))

deserialize_WelcomeInfo(json) ==
    [motd |-> get_option(json, "motd"), error |-> get_option(json, "error"),
     permission_required |-> IF "permission_required" \in DOMAIN json
                             THEN json.permission_required ELSE <<>>]

\* enum ServerMessageType, tag = "type", rename_all = "lowercase". The
\* nameplates of a list are a set in the model: their order is not modelled.
serialize_ServerMessageType(ty) ==
    CASE ty.type = "welcome" ->
             [type |-> "welcome", welcome |-> serialize_WelcomeInfo(ty.welcome)]
      [] ty.type = "nameplates" ->
             [type |-> "nameplates", nameplates |-> {[id |-> to_string(n)] : n \in ty.nameplates}]
      [] ty.type = "allocated" ->
             [type |-> "allocated", nameplate |-> to_string(ty.nameplate_id)]
      [] ty.type = "claimed" -> [type |-> "claimed", mailbox |-> ty.mailbox_id]
      [] ty.type = "released" -> [type |-> "released"]
      [] ty.type = "message" ->
             [type |-> "message", side |-> ty.side, phase |-> serialize_Phase(ty.phase),
              body |-> hex_encode(ty.body)]
      [] ty.type = "closed" -> [type |-> "closed"]
      [] ty.type = "ack" -> [type |-> "ack"]
      [] ty.type = "pong" -> [type |-> "pong", ping |-> ty.ping]
      [] ty.type = "error" ->
             [type |-> "error", error |-> ty.error, orig |-> serialize_ClientMessage(ty.orig)]

deserialize_ServerMessageType(json) ==
    IF "type" \notin DOMAIN json THEN None
    ELSE CASE json.type = "welcome" ->
                  IF "welcome" \in DOMAIN json
                  THEN Some([type |-> "welcome", welcome |-> deserialize_WelcomeInfo(json.welcome)])
                  ELSE None
           [] json.type = "nameplates" ->
                  IF /\ "nameplates" \in DOMAIN json
                     /\ \A info \in json.nameplates : from_str(info.id) # None
                  THEN Some([type |-> "nameplates",
                             nameplates |-> {from_str(info.id)[1] : info \in json.nameplates}])
                  ELSE None
           [] json.type = "allocated" ->
                  IF "nameplate" \in DOMAIN json /\ from_str(json.nameplate) # None
                  THEN Some([type |-> "allocated", nameplate_id |-> from_str(json.nameplate)[1]])
                  ELSE None
           [] json.type = "claimed" ->
                  IF "mailbox" \in DOMAIN json
                  THEN Some([type |-> "claimed", mailbox_id |-> json.mailbox])
                  ELSE None
           [] json.type = "released" -> Some([type |-> "released"])
           [] json.type = "message" ->
                  IF /\ {"side", "phase", "body"} \subseteq DOMAIN json
                     /\ deserialize_Phase(json.phase) # None
                     /\ hex_decode(json.body) # None
                  THEN Some([type |-> "message", side |-> json.side,
                             phase |-> deserialize_Phase(json.phase)[1],
                             body |-> hex_decode(json.body)[1]])
                  ELSE None
           [] json.type = "closed" -> Some([type |-> "closed"])
           [] json.type = "ack" -> Some([type |-> "ack"])
           [] json.type = "pong" ->
                  IF "ping" \in DOMAIN json THEN Some([type |-> "pong", ping |-> json.ping])
                  ELSE None
           [] json.type = "error" ->
                  IF /\ {"error", "orig"} \subseteq DOMAIN json
                     /\ deserialize_ClientMessage(json.orig) # None
                  THEN Some([type |-> "error", error |-> json.error,
                             orig |-> deserialize_ClientMessage(json.orig)[1]])
                  ELSE None
           [] OTHER -> None

\* struct ServerMessage: id and server_rx skipped if None, ty flattened
serialize_ServerMessage(msg) ==
    skip_none("id", msg.id) @@ skip_none("server_rx", msg.server_rx) @@
    serialize_ServerMessageType(msg.ty)

deserialize_ServerMessage(json) ==
    IF deserialize_ServerMessageType(json) = None THEN None
    ELSE Some([id |-> get_option(json, "id"), server_rx |-> get_option(json, "server_rx"),
               ty |-> deserialize_ServerMessageType(json)[1]])

(***************************************************************************)
(* CodecSpec: an envelope is built, written with serde_json::to_string and *)
(* read back with serde_json::from_str.                                    *)
(***************************************************************************)
NameplateNumbers == {0, 7, 10, 998}
PhaseInputs == {Pake, Version, Message(0), Message(12)}
BodyInputs == {<<>>, <<0>>, <<249, 33>>, <<10, 255>>}
MoodInputs == {"happy", "lonely", "scary", "errory"}

ClientMessageTypes ==
    {SubmitPermissions, List, Allocate, Bind("side1"), Ping(7), Release(None)}
    \cup {Claim(n) : n \in NameplateNumbers}
    \cup {Release(Some(n)) : n \in NameplateNumbers}
    \cup {Open(m) : m \in MailboxIds}
    \cup {Add(phase, body) : phase \in PhaseInputs, body \in BodyInputs}
    \cup {[type |-> "close", mailbox_id |-> 1, mood |-> mood] : mood \in MoodInputs}
ClientMessageInputs == {[id |-> "5d67", ty |-> ty] : ty \in ClientMessageTypes}

ServerMessageTypes ==
    {[type |-> "released"], [type |-> "closed"], [type |-> "ack"], [type |-> "pong", ping |-> 7]}
    \cup {[type |-> "welcome",
           welcome |-> [motd |-> motd, error |-> error, permission_required |-> required]] :
            motd \in {None, Some("hello")}, error \in {None, Some("full")},
            required \in {<<>>, <<"none">>}}
    \cup {[type |-> "nameplates", nameplates |-> ids] : ids \in SUBSET {1, 12}}
    \cup {[type |-> "allocated", nameplate_id |-> n] : n \in NameplateNumbers}
    \cup {[type |-> "claimed", mailbox_id |-> m] : m \in MailboxIds}
    \cup {[type |-> "message", side |-> "side1", phase |-> phase, body |-> body] :
            phase \in PhaseInputs, body \in {<<>>, <<96, 65>>}}
    \cup {[type |-> "error", error |-> "crowded", orig |-> orig] :
            orig \in {[id |-> "5d67", ty |-> Claim(7)],
                      [id |-> "d8c1", ty |-> Add(Message(0), <<249, 33>>)]}}
ServerMessageInputs ==
    {ServerMessage_new(id, server_rx, ty) :
        id \in {None, Some("5d67")}, server_rx \in {None, Some(3)}, ty \in ServerMessageTypes}

\* The server is not part of the runs of the pure functions: its state stays
\* as constructed.
ServerIdle ==
    /\ nameplates = EmptyMap
    /\ mailboxes = EmptyMap
    /\ queues = [sender \in Senders |-> <<>>]
    /\ panicked = FALSE
    /\ delivered = [p \in MailboxIds \X Sides |-> <<>>]
    /\ appended = [m \in MailboxIds |-> <<>>]
    /\ connections = [c \in ConnectionIds |->
                         [conn |-> Connection_new(sender_of[c]), pc |-> "listening",
                          msg |-> None, frames |-> 0, log |-> <<>>]]
    /\ apps = [app_id \in AppIds \ {FirstAppId} |->
                  [nameplates |-> EmptyMap, mailboxes |-> EmptyMap]]

CodecInit ==
    /\ ServerIdle
    /\ client = ClientProgram("send")
    /\ \E from \in {"client", "server"} :
           \E msg \in IF from = "client" THEN ClientMessageInputs ELSE ServerMessageInputs :
               last = [op |-> "new", from |-> from, msg |-> msg]

\* serde_json::to_string
ToString_ClientMessage ==
    /\ last.op = "new" /\ last.from = "client"
    /\ last' = [op |-> "to_string", from |-> last.from, msg |-> last.msg,
                json |-> serialize_ClientMessage(last.msg)]
    /\ UNCHANGED <<nameplates, mailboxes, queues, panicked, delivered, appended, connections,
                   apps, client>>

ToString_ServerMessage ==
    /\ last.op = "new" /\ last.from = "server"
    /\ last' = [op |-> "to_string", from |-> last.from, msg |-> last.msg,
                json |-> serialize_ServerMessage(last.msg)]
    /\ UNCHANGED <<nameplates, mailboxes, queues, panicked, delivered, appended, connections,
                   apps, client>>

\* serde_json::from_str
FromStr_ClientMessage ==
    /\ last.op = "to_string" /\ last.from = "client"
    /\ last' = [op |-> "from_str", from |-> last.from, msg |-> last.msg, json |-> last.json,
                ret |-> deserialize_ClientMessage(last.json)]
    /\ UNCHANGED <<nameplates, mailboxes, queues, panicked, delivered, appended, connections,
                   apps, client>>

FromStr_ServerMessage ==
    /\ last.op = "to_string" /\ last.from = "server"
    /\ last' = [op |-> "from_str", from |-> last.from, msg |-> last.msg, json |-> last.json,
                ret |-> deserialize_ServerMessage(last.json)]
    /\ UNCHANGED <<nameplates, mailboxes, queues, panicked, delivered, appended, connections,
                   apps, client>>

CodecNext ==
    \/ ToString_ClientMessage
    \/ ToString_ServerMessage
    \/ FromStr_ClientMessage
    \/ FromStr_ServerMessage

CodecSpec == CodecInit /\ [][CodecNext]_vars

(***************************************************************************)
(* client/crypto.rs: the encryption of a message body. The primitives are  *)
(* symbolic: a hash, a derived key, a keystream byte and a tag are the     *)
(* terms they were computed from, so two of them are equal only if they    *)
(* were computed from the same inputs.                                     *)
(***************************************************************************)
\* crypto_secretbox::SecretBox::NONCE_SIZE
NONCE_SIZE == 24

sha256_str(input) == [sha256 |-> input]

generate_purpose(side, phase) ==
    <<"wormhole:phase:", sha256_str(side), sha256_str(serialize_Phase(phase))>>

\* Hkdf::<Sha256>::new(None, key), expanded over the purpose and cut to the
\* key size.
derive_phase_key(key, side, phase) ==
    [hkdf_sha256 |-> key, info |-> generate_purpose(side, phase)]

\* XSalsa20Poly1305::generate_nonce(&mut OsRng): the bytes of one draw.
generate_nonce(draw) == [i \in 1..NONCE_SIZE |-> [random |-> draw, at |-> i]]

\* Poly1305 over the cipher text, keyed from the key and the nonce.
poly1305(phase_key, nonce, body) == [tag |-> body, key |-> phase_key, nonce |-> nonce]

\* XSalsa20Poly1305::encrypt: each byte under the keystream of the key and
\* the nonce, followed by the tag.
cipher_encrypt(phase_key, nonce, plain_text) ==
    LET body == [i \in 1..Len(plain_text) |->
                    [byte |-> plain_text[i], key |-> phase_key, nonce |-> nonce, at |-> i]]
    IN  Append(body, poly1305(phase_key, nonce, body))

\* XSalsa20Poly1305::decrypt: Err unless the tag is the one of this key,
\* nonce and cipher text.
cipher_decrypt(phase_key, nonce, cipher_text) ==
    IF cipher_text = <<>> THEN [result |-> "Err"]
    ELSE LET body == SubSeq(cipher_text, 1, Len(cipher_text) - 1)
         IN  IF cipher_text[Len(cipher_text)] = poly1305(phase_key, nonce, body)
             THEN [result |-> "Ok", value |-> [i \in 1..Len(body) |-> body[i].byte]]
             ELSE [result |-> "Err"]

\* Mutant: the cipher text is returned without the nonce in front of it.
encrypt_message_without_nonce(message, key, side, phase, draw) ==
    cipher_encrypt(derive_phase_key(key, side, phase), generate_nonce(draw), message)

\* encrypt_message. The message is the bytes of the &str.
encrypt_message(message, key, side, phase, draw) ==
    LET phase_key == derive_phase_key(key, side, phase)
        nonce == generate_nonce(draw)
    IN  nonce \o cipher_encrypt(phase_key, nonce, message)

\* decrypt_message. split_at panics on a message shorter than the nonce; the
\* plain text was a &str, so from_utf8 returns it.
decrypt_message(message, key, side, phase) ==
    IF Len(message) < NONCE_SIZE THEN [result |-> "panic"]
    ELSE cipher_decrypt(derive_phase_key(key, side, phase),
                        SubSeq(message, 1, NONCE_SIZE),
                        SubSeq(message, NONCE_SIZE + 1, Len(message)))

(***************************************************************************)
(* CryptoSpec: a message is encrypted and the result decrypted with the    *)
(* same key, side and phase.                                               *)
(***************************************************************************)
KeyInputs == {<<1>>, <<2, 3>>}
PlainTextInputs == {<<>>, <<104, 105>>, <<104, 101, 108, 108, 111>>}
Draws == {1, 2}

CryptoInit ==
    /\ ServerIdle
    /\ client = ClientProgram("send")
    /\ \E message \in PlainTextInputs, key \in KeyInputs, side \in {"side1", "side2"},
          phase \in PhaseInputs, draw \in Draws :
           last = [op |-> "new", message |-> message, key |-> key, side |-> side,
                   phase |-> phase, draw |-> draw]

EncryptMessage ==
    /\ last.op = "new"
    /\ last' = [last EXCEPT !.op = "encrypt_message"] @@
               ("encrypted" :> encrypt_message(last.message, last.key, last.side, last.phase,
                                               last.draw))
    /\ UNCHANGED <<nameplates, mailboxes, queues, panicked, delivered, appended, connections,
                   apps, client>>

DecryptMessage ==
    /\ last.op = "encrypt_message"
    /\ last' = [last EXCEPT !.op = "decrypt_message"] @@
               ("ret" :> decrypt_message(last.encrypted, last.key, last.side, last.phase))
    /\ UNCHANGED <<nameplates, mailboxes, queues, panicked, delivered, appended, connections,
                   apps, client>>

CryptoNext ==
    \/ EncryptMessage
    \/ DecryptMessage

CryptoSpec == CryptoInit /\ [][CryptoNext]_vars

(***************************************************************************)
(* ClientSpec: the client program, as sender or as receiver, handling the  *)
(* frames a server sends it.                                               *)
(***************************************************************************)
ClientCommands == {"send", "receive"}

EnvelopeTypes ==
    { [type |-> "welcome",
       welcome |-> [motd |-> None, error |-> None, permission_required |-> <<>>]],
      [type |-> "welcome",
       welcome |-> [motd |-> None, error |-> Some("full"), permission_required |-> <<>>]],
      [type |-> "allocated", nameplate_id |-> 1],
      [type |-> "claimed", mailbox_id |-> 1],
      [type |-> "message", side |-> ClientSide, phase |-> Pake, body |-> Sealed],
      [type |-> "message", side |-> PeerSide, phase |-> Pake, body |-> Sealed],
      [type |-> "message", side |-> PeerSide, phase |-> Version, body |-> Sealed],
      [type |-> "message", side |-> PeerSide, phase |-> Message(0), body |-> Sealed],
      [type |-> "message", side |-> PeerSide, phase |-> Message(0), body |-> Garbled],
      [type |-> "closed"],
      [type |-> "ack"],
      [type |-> "error", error |-> "crowded",
       orig |-> [id |-> "5d67", ty |-> [type |-> "claim", nameplate_id |-> 1]]] }
Envelopes == {ServerMessage_new(None, None, ty) : ty \in EnvelopeTypes}

ClientInit ==
    /\ ServerIdle
    /\ last = [op |-> "default"]
    /\ \E command \in ClientCommands : client = ClientProgram(command)

\* A frame that decodes to a ServerMessage.
HandleIncoming(msg) ==
    /\ client.running
    /\ client.received < MaxReceived
    /\ client' = [AfterEnvelope(HandleEnvelope(client, msg)) EXCEPT !.received = @ + 1]
    /\ last' = [op |-> "handle_incoming", msg |-> msg]
    /\ UNCHANGED <<nameplates, mailboxes, queues, panicked, delivered, appended, connections,
                   apps>>

\* A frame that does not decode: it is reported and dropped.
UndecodableFrame ==
    /\ client.running
    /\ client.received < MaxReceived
    /\ client' = [client EXCEPT !.received = @ + 1]
    /\ last' = [op |-> "undecodable"]
    /\ UNCHANGED <<nameplates, mailboxes, queues, panicked, delivered, appended, connections,
                   apps>>

ClientNext ==
    \/ \E msg \in Envelopes : HandleIncoming(msg)
    \/ UndecodableFrame

ClientSpec == ClientInit /\ [][ClientNext]_vars

(***************************************************************************)
(* Properties of the mailbox operations (MailboxSpec).                     *)
(***************************************************************************)
\* e is a `message` envelope carrying the id, side, phase and body of msg.
IsEnvelopeOf(e, msg) ==
    /\ e.ty.type = "message"
    /\ e.id = Some(msg.id)
    /\ e.ty.side = msg.side
    /\ e.ty.phase = msg.phase
    /\ e.ty.body = msg.body

IsPrefix(a, b) == Len(a) <= Len(b) /\ SubSeq(b, 1, Len(a)) = a
Occurrences(seq, P(_)) == Cardinality({i \in 1..Len(seq) : P(seq[i])})

\* C1: when add_message_to_mailbox appends a message, every channel gets
\* exactly one `message` envelope with the message's id, side, phase and
\* body per subscriber of the mailbox registered with that channel (the
\* sender's own subscriber included), and a channel no subscriber of the
\* mailbox is registered with gets nothing.
C1_BroadcastOncePerSubscriber ==
    [][ (last'.op = "add_message_to_mailbox" /\ ~panicked') =>
          \A sender \in Senders :
            LET sent == Sent(queues, queues', sender)
                subscribers == mailboxes[last'.mailbox_id].subscribers
            IN  /\ IsPrefix(queues[sender], queues'[sender])
                /\ Len(sent) = Occurrences(subscribers, LAMBDA s : s.sender = sender)
                /\ \A i \in 1..Len(sent) : IsEnvelopeOf(sent[i], last'.message) ]_vars

\* C1 witness: a message of side1 was added to a mailbox whose two
\* subscribers are side1 on tx1 and side2 on tx2, and each channel holds just
\* that envelope.
C1_Witness ==
    /\ last.op = "add_message_to_mailbox" /\ ~panicked
    /\ last.message.side = "side1"
    /\ last.mailbox_id \in DOMAIN mailboxes
    /\ mailboxes[last.mailbox_id].subscribers =
           << [side |-> "side1", sender |-> "tx1"], [side |-> "side2", sender |-> "tx2"] >>
    /\ \A sender \in Senders :
           Len(queues[sender]) = 1 /\ IsEnvelopeOf(queues[sender][1], last.message)

\* C2: when a side that is not subscribed opens a mailbox, its channel gets
\* exactly one `message` envelope per stored message, in stored order, and
\* nothing else is sent; channels only ever grow at their end, so the replay
\* precedes every envelope of a message appended later.
C2_ReplayInOrderBeforeBroadcasts ==
    [][ /\ \A sender \in Senders : IsPrefix(queues[sender], queues'[sender])
        /\ (last'.op = "open_mailbox"
              /\ position(subscribers_of(mailboxes, last'.mailbox_id), last'.side) = 0) =>
             LET stored == messages_of(mailboxes, last'.mailbox_id)
                 sent == Sent(queues, queues', last'.sender)
             IN  /\ Len(sent) = Len(stored)
                 /\ \A i \in 1..Len(stored) : IsEnvelopeOf(sent[i], stored[i])
                 /\ \A other \in Senders \ {last'.sender} : queues'[other] = queues[other]
                 /\ position(subscribers_of(mailboxes', last'.mailbox_id), last'.side) # 0 ]_vars

\* C2 witness: a new subscriber has just been replayed two different stored
\* messages.
C2_Witness ==
    /\ last.op = "open_mailbox" /\ last.new
    /\ Len(messages_of(mailboxes, last.mailbox_id)) = 2
    /\ mailboxes[last.mailbox_id].messages[1] # mailboxes[last.mailbox_id].messages[2]
    /\ Len(queues[last.sender]) = 2
    /\ IsEnvelopeOf(queues[last.sender][1], mailboxes[last.mailbox_id].messages[1])
    /\ IsEnvelopeOf(queues[last.sender][2], mailboxes[last.mailbox_id].messages[2])

\* The envelopes in seq are those of the messages stored[a..b], in order.
IsRunOf(seq, stored, a, b) ==
    /\ Len(seq) = b - a + 1
    /\ \A i \in 1..Len(seq) : IsEnvelopeOf(seq[i], stored[a + i - 1])

\* C3: what a subscriber has been sent since it subscribed (replay, then
\* broadcasts) is a contiguous run of the mailbox's stored messages, and the
\* stored messages are in the order in which they were added.
C3_SubscribersSeeStoredOrder ==
    \A m \in DOMAIN mailboxes :
        /\ \E k \in 0..Len(appended[m]) :
               mailboxes[m].messages = SubSeq(appended[m], k + 1, Len(appended[m]))
        /\ \A i \in 1..Len(mailboxes[m].subscribers) :
               \E a \in 1..(Len(mailboxes[m].messages) + 1), b \in 0..Len(mailboxes[m].messages) :
                   IsRunOf(delivered[<<m, mailboxes[m].subscribers[i].side>>],
                           mailboxes[m].messages, a, b)

\* C3 witness: a mailbox with two different stored messages and two
\* subscribers that have each been sent two envelopes.
C3_Witness ==
    /\ last.op = "add_message_to_mailbox" /\ ~panicked
    /\ last.mailbox_id \in DOMAIN mailboxes
    /\ Len(mailboxes[last.mailbox_id].messages) = 2
    /\ mailboxes[last.mailbox_id].messages[1] # mailboxes[last.mailbox_id].messages[2]
    /\ Len(mailboxes[last.mailbox_id].subscribers) = 2
    /\ \A side \in MailboxSides : Len(delivered[<<last.mailbox_id, side>>]) = 2

\* C4 as claimed: every subscriber of the mailbox under id m has been sent,
\* exactly once since it subscribed, every message ever added under id m.
C4_DeliveredToEveryLaterSubscriber ==
    \A m \in DOMAIN mailboxes :
        \A i \in 1..Len(mailboxes[m].subscribers) :
            \A x \in MessageInputs :
                Occurrences(delivered[<<m, mailboxes[m].subscribers[i].side>>],
                            LAMBDA e : IsEnvelopeOf(e, x))
                    = Occurrences(appended[m], LAMBDA y : y = x)

\* C4 as amended: every subscriber of a mailbox has been sent, exactly once
\* since it subscribed, every message the mailbox stores: the messages added
\* since the mailbox was created. The messages of a mailbox that was deleted
\* are not sent to the subscribers of a later mailbox of the same id.
C4_DeliveredOncePerLifetime ==
    \A m \in DOMAIN mailboxes :
        \A i \in 1..Len(mailboxes[m].subscribers) :
            \A x \in MessageInputs :
                Occurrences(delivered[<<m, mailboxes[m].subscribers[i].side>>],
                            LAMBDA e : IsEnvelopeOf(e, x))
                    = Occurrences(mailboxes[m].messages, LAMBDA y : y = x)

\* C4 witness: a side has just joined a mailbox that stores a message and
\* has another subscriber, and has been sent that message once.
C4_Witness ==
    /\ last.op = "open_mailbox" /\ last.new
    /\ Len(mailboxes[last.mailbox_id].subscribers) = 2
    /\ Len(mailboxes[last.mailbox_id].messages) = 1
    /\ Len(delivered[<<last.mailbox_id, last.side>>]) = 1
    /\ IsEnvelopeOf(delivered[<<last.mailbox_id, last.side>>][1],
                    mailboxes[last.mailbox_id].messages[1])

\* C6: every mailbox of the App has at least one subscriber.
C6_NoMailboxWithoutSubscribers ==
    \A m \in DOMAIN mailboxes : mailboxes[m].subscribers # <<>>

\* C15: close_mailbox(mailbox_id, side) on an existing mailbox removes the
\* subscriber of that side and deletes the mailbox exactly when no subscriber
\* remains; when the side is not subscribed, the mailbox stays with the
\* subscribers and messages it had.
C15_CloseRemovesSubscriberOrNothing ==
    [][ (last'.op = "close_mailbox" /\ last'.mailbox_id \in DOMAIN mailboxes) =>
          LET m == last'.mailbox_id
              rest == SelectSeq(mailboxes[m].subscribers, LAMBDA s : s.side # last'.side)
          IN  /\ ~panicked'
              /\ IF position(mailboxes[m].subscribers, last'.side) = 0
                 THEN m \in DOMAIN mailboxes' /\ mailboxes'[m] = mailboxes[m]
                 ELSE /\ (m \notin DOMAIN mailboxes') <=> (rest = <<>>)
                      /\ rest # <<>> =>
                             mailboxes'[m] = [mailboxes[m] EXCEPT !.subscribers = rest] ]_vars

(***************************************************************************)
(* Properties of the nameplate operations (Spec).                          *)
(***************************************************************************)
\* The ids of the range that are not keys of nameplates.
FreeIds == {i \in NAMEPLATE_ID_RANGE : i \notin DOMAIN nameplates}
Smallest(ids) == CHOOSE i \in ids : \A j \in ids : i <= j

\* C5: every nameplate of the App has at least one side, and the assertion
\* of claim_nameplate never fails.
C5_NameplatesHaveSides ==
    /\ \A n \in DOMAIN nameplates : nameplates[n].sides # <<>>
    /\ last.op = "claim_nameplate" => ~panicked

\* C5 witness: side1 has just released a nameplate it shared with side2,
\* which keeps the nameplate alive, while the other nameplate is gone.
C5_Witness ==
    /\ last.op = "release_nameplate" /\ last.held /\ last.side = "side1"
    /\ DOMAIN nameplates = {last.nameplate_id}
    /\ nameplates[last.nameplate_id].sides = <<"side2">>

\* C7: when some id of the range is free, allocate_nameplate returns the
\* smallest of them, and that id is a nameplate afterwards.
C7_AllocateSmallestFree ==
    [][ (last'.op = "allocate_nameplate" /\ FreeIds # {}) =>
          /\ last'.ret = Some(Smallest(FreeIds))
          /\ Smallest(FreeIds) \in DOMAIN nameplates' ]_vars

\* C7 witness: allocate has returned 1 while a nameplate with a larger id
\* exists (id 1 had been released, or the larger id was claimed first).
C7_Witness ==
    /\ last.op = "allocate_nameplate" /\ last.ret = Some(1)
    /\ DOMAIN nameplates = {1, 2}
    /\ nameplates[2].sides # <<last.side>>

\* C8: when every id of the range is a nameplate, allocate_nameplate returns
\* None and changes no nameplate, no mailbox and no channel.
C8_AllocateWhenFull ==
    [][ (last'.op = "allocate_nameplate" /\ FreeIds = {}) =>
          /\ last'.ret = None
          /\ ~panicked'
          /\ UNCHANGED <<nameplates, mailboxes, queues>> ]_vars

\* C8 witness: allocate has returned None to a side that holds none of the
\* nameplates of the full range.
C8_Witness ==
    /\ last.op = "allocate_nameplate" /\ last.ret = None
    /\ NAMEPLATE_ID_RANGE \subseteq DOMAIN nameplates
    /\ \A n \in DOMAIN nameplates : ~contains(nameplates[n].sides, last.side)

\* C9: after allocate_nameplate(side, sender) returned Some(n), nameplate n
\* has sides = [side], its mailbox exists and has (side, sender) as a
\* subscriber.
C9_AllocateClaimsAndSubscribes ==
    [][ (last'.op = "allocate_nameplate" /\ last'.ret # None) =>
          LET n == last'.ret[1]
          IN  /\ n \in DOMAIN nameplates'
              /\ nameplates'[n].sides = <<last'.side>>
              /\ nameplates'[n].mailbox_id \in DOMAIN mailboxes'
              /\ contains(mailboxes'[nameplates'[n].mailbox_id].subscribers,
                          [side |-> last'.side, sender |-> last'.sender]) ]_vars

\* C9 witness: side1 on tx2 has been allocated nameplate 2 while side1 is
\* subscribed to the other mailbox on tx1.
C9_Witness ==
    /\ last.op = "allocate_nameplate" /\ last.ret = Some(2)
    /\ last.side = "side1" /\ last.sender = "tx2"
    /\ nameplates[2].sides = <<"side1">>
    /\ contains(mailboxes[nameplates[2].mailbox_id].subscribers,
                [side |-> "side1", sender |-> "tx2"])
    /\ \E m \in DOMAIN mailboxes :
           contains(mailboxes[m].subscribers, [side |-> "side1", sender |-> "tx1"])

\* C10 as claimed: after any claim_nameplate that returned a mailbox id, the
\* calling side is a subscriber of the nameplate's mailbox.
C10_ClaimSubscribes ==
    [][ (last'.op = "claim_nameplate" /\ ~panicked' /\ last'.ret # None) =>
          LET mailbox_id == nameplates'[last'.nameplate_id].mailbox_id
          IN  /\ mailbox_id \in DOMAIN mailboxes'
              /\ is_subscribed(mailboxes'[mailbox_id], last'.side) ]_vars

\* C10 as amended: after a claim_nameplate that created the nameplate, the
\* calling side is a subscriber of the nameplate's mailbox.
C10_CreatingClaimSubscribes ==
    [][ (last'.op = "claim_nameplate" /\ last'.nameplate_id \notin DOMAIN nameplates) =>
          LET mailbox_id == nameplates'[last'.nameplate_id].mailbox_id
          IN  /\ last'.ret = Some(mailbox_id)
              /\ mailbox_id \in DOMAIN mailboxes'
              /\ is_subscribed(mailboxes'[mailbox_id], last'.side) ]_vars

\* C10 witness: side2 has created nameplate 2 by a claim and is the only
\* subscriber of its mailbox.
C10_Witness ==
    /\ last.op = "claim_nameplate" /\ last.created
    /\ last.nameplate_id = 2 /\ last.side = "side2"
    /\ nameplates[2].sides = <<"side2">>
    /\ mailboxes[nameplates[2].mailbox_id].subscribers =
           << [side |-> "side2", sender |-> last.sender] >>


\* C11: the mailbox_id of a nameplate is the same after every call that
\* leaves the nameplate in the App, the claim that creates a nameplate
\* returns the mailbox_id it stores, and every later claim of the nameplate
\* that returns a mailbox id returns that same mailbox_id.
C11_MailboxIdOfNameplateFixed ==
    [][ /\ \A n \in DOMAIN nameplates \cap DOMAIN nameplates' :
               nameplates'[n].mailbox_id = nameplates[n].mailbox_id
        /\ (last'.op = "claim_nameplate" /\ ~panicked' /\ last'.ret # None) =>
               /\ last'.nameplate_id \in DOMAIN nameplates'
               /\ last'.ret = Some(nameplates'[last'.nameplate_id].mailbox_id) ]_vars

\* C11 witness: side2 has joined the nameplate side1 created and was returned
\* the nameplate's mailbox id, while the other mailbox id is in use as well.
C11_Witness ==
    /\ last.op = "claim_nameplate" /\ ~last.created /\ last.side = "side2"
    /\ nameplates[last.nameplate_id].sides = <<"side1", "side2">>
    /\ last.ret = Some(nameplates[last.nameplate_id].mailbox_id)
    /\ DOMAIN mailboxes = MailboxIds


\* C13: release_nameplate(id, side) never fails and touches no mailbox and
\* no channel. When side is one of the sides of nameplate id, it is removed
\* from them, the nameplate is deleted exactly when no side is left and keeps
\* its mailbox_id and the order of its other sides otherwise, and the other
\* nameplates are unchanged. When id is no nameplate or side is none of its
\* sides, the nameplates are unchanged.
C13_ReleaseRemovesSideOrNothing ==
    [][ (last'.op = "release_nameplate") =>
          LET n == last'.nameplate_id
              held == n \in DOMAIN nameplates /\ contains(nameplates[n].sides, last'.side)
          IN  /\ ~panicked'
              /\ UNCHANGED <<mailboxes, queues>>
              /\ ~held => nameplates' = nameplates
              /\ held =>
                    LET rest == SelectSeq(nameplates[n].sides, LAMBDA s : s # last'.side)
                    IN  /\ Len(rest) = Len(nameplates[n].sides) - 1
                        /\ \A other \in DOMAIN nameplates \ {n} :
                               /\ other \in DOMAIN nameplates'
                               /\ nameplates'[other] = nameplates[other]
                        /\ DOMAIN nameplates' \subseteq DOMAIN nameplates
                        /\ (n \notin DOMAIN nameplates') <=> (rest = <<>>)
                        /\ rest # <<>> =>
                               nameplates'[n] = [nameplates[n] EXCEPT !.sides = rest] ]_vars

\* C13 witness: the only side of a nameplate has released it; the nameplate
\* is gone while the other nameplate and the mailboxes are still there.
C13_Witness ==
    /\ last.op = "release_nameplate" /\ last.held
    /\ last.nameplate_id \notin DOMAIN nameplates
    /\ DOMAIN nameplates # {}
    /\ DOMAIN mailboxes = MailboxIds

(***************************************************************************)
(* Properties of crowding (CrowdedSpec).                                   *)
(***************************************************************************)
\* C12: a claim of a free nameplate id returns a mailbox id and records the
\* side alone; a claim by a side the nameplate does not record appends the
\* side behind the recorded ones, and returns the nameplate's mailbox id when
\* that makes two sides and None (crowded) when it makes three or more.
C12_ThirdClaimCrowdedButRecorded ==
    [][ (last'.op = "claim_nameplate" /\ ~panicked') =>
          LET n == last'.nameplate_id
          IN  IF n \notin DOMAIN nameplates
              THEN /\ last'.ret = Some(nameplates'[n].mailbox_id)
                   /\ nameplates'[n].sides = <<last'.side>>
              ELSE IF contains(nameplates[n].sides, last'.side)
              THEN /\ nameplates' = nameplates
                   /\ last'.ret = Some(nameplates[n].mailbox_id)
              ELSE /\ nameplates'[n].sides = Append(nameplates[n].sides, last'.side)
                   /\ last'.ret = IF Len(nameplates[n].sides) >= 2 THEN None
                                  ELSE Some(nameplates[n].mailbox_id) ]_vars

\* C12 witness: the third of three sides has claimed the nameplate, was
\* returned None, and is recorded behind the first two.
C12_Witness ==
    /\ last.op = "claim_nameplate" /\ last.ret = None /\ last.side = "side3"
    /\ nameplates[last.nameplate_id].sides = <<"side2", "side1", "side3">>

\* C14: after open_mailbox the mailbox exists with the messages it had; a
\* side that was not subscribed is appended behind the subscribers already
\* present (a third one as well), which are otherwise unchanged; the call
\* returns None (crowded) exactly when the mailbox then has three or more
\* subscribers.
C14_OpenAdmitsThirdAsCrowded ==
    [][ (last'.op = "open_mailbox") =>
          LET m == last'.mailbox_id
              before == subscribers_of(mailboxes, m)
          IN  /\ ~panicked'
              /\ m \in DOMAIN mailboxes'
              /\ mailboxes'[m].messages = messages_of(mailboxes, m)
              /\ mailboxes'[m].subscribers =
                     IF position(before, last'.side) # 0 THEN before
                     ELSE Append(before, [side |-> last'.side, sender |-> last'.sender])
              /\ last'.ret = IF Len(mailboxes'[m].subscribers) >= 3 THEN None
                             ELSE Some(Unit) ]_vars

\* C14 witness: a third side has opened a mailbox, was returned None, and is
\* subscribed behind the two sides that were there.
C14_Witness ==
    /\ last.op = "open_mailbox" /\ last.new /\ last.ret = None
    /\ Len(mailboxes[last.mailbox_id].subscribers) = 3
    /\ mailboxes[last.mailbox_id].subscribers[3] =
           [side |-> last.side, sender |-> last.sender]


(***************************************************************************)
(* Properties of the connection handler (DisconnectSpec, ServerSpec).      *)
(***************************************************************************)
\* The side of connection c is the only side of some nameplate and the only
\* subscriber, on the channel of c, of that nameplate's mailbox.
SoleClaimantAndSubscriber(c, n) ==
    /\ connections[c].conn.side # None
    /\ n \in DOMAIN nameplates
    /\ nameplates[n].sides = <<connections[c].conn.side[1]>>
    /\ nameplates[n].mailbox_id \in DOMAIN mailboxes
    /\ mailboxes[nameplates[n].mailbox_id].subscribers =
           << [side |-> connections[c].conn.side[1], sender |-> connections[c].conn.sender] >>

\* C16: when the socket of a connection closes while its side is the only
\* side of a nameplate and the only subscriber of that nameplate's mailbox,
\* then after the disconnect cleanup the nameplate is gone, the mailbox is
\* gone, and the channel of the connection is subscribed to no mailbox.
C16_DisconnectReapsNameplateAndMailbox ==
    [][ \A c \in ConnectionIds, n \in NAMEPLATE_ID_RANGE :
          (last'.op = "disconnect" /\ last'.c = c /\ SoleClaimantAndSubscriber(c, n)) =>
             /\ n \notin DOMAIN nameplates'
             /\ nameplates[n].mailbox_id \notin DOMAIN mailboxes'
             /\ \A m \in DOMAIN mailboxes' :
                    \A i \in 1..Len(mailboxes'[m].subscribers) :
                        mailboxes'[m].subscribers[i].sender # connections[c].conn.sender ]_vars


\* What the server sent to connection c in answer to its own frames: the
\* envelopes on its channel other than the welcome and the broadcasts.
Replies(c) ==
    SelectSeq(queues[sender_of[c]], LAMBDA e : e.ty.type \notin {"welcome", "message"})

\* The type of the direct response to a command, if it has one.
ResponseType(type) ==
    CASE type = "list" -> "nameplates"
      [] type = "allocate" -> "allocated"
      [] type = "claim" -> "claimed"
      [] type = "release" -> "released"
      [] type = "close" -> "closed"
      [] type = "ping" -> "pong"
      [] OTHER -> "none"

IsAckOf(e, cmd) == e.ty.type = "ack" /\ e.id = Some(cmd.id)
IsAnswerTo(e, cmd) ==
    /\ e.id = Some(cmd.id)
    /\ e.ty.type \in {"error", ResponseType(cmd.ty.type)}

\* replies is, for each command of log in order, its ack followed by at most
\* one response or error to it; the last command has only its ack while it
\* is pending.
RECURSIVE Answers(_, _, _)
Answers(replies, log, pending) ==
    IF log = <<>> THEN replies = <<>>
    ELSE /\ replies # <<>>
         /\ IsAckOf(Head(replies), Head(log))
         /\ LET rest == Tail(replies)
            IN  IF Len(log) = 1 /\ pending THEN rest = <<>>
                ELSE IF rest # <<>> /\ rest[1].ty.type # "ack"
                THEN IsAnswerTo(rest[1], Head(log)) /\ Answers(Tail(rest), Tail(log), pending)
                ELSE Answers(rest, Tail(log), pending)

\* C17: on the channel of every connection, the acks, responses and errors
\* are, for each decoded command in the order received, exactly one ack with
\* the command's id followed by at most one response or error with that id,
\* whatever broadcasts other connections put on the channel in between.
C17_AckThenResponseInCommandOrder ==
    \A c \in ConnectionIds :
        Answers(Replies(c), connections[c].log, connections[c].pc = "acked")

\* C17 witness: on the channel of c1 a broadcast of side2 lies between the
\* ack of a ping and its pong, after the acks of two earlier commands.
C17_Witness ==
    \E i \in 1..Len(queues["tx1"]) :
        /\ i + 2 <= Len(queues["tx1"])
        /\ queues["tx1"][i].ty.type = "ack"
        /\ queues["tx1"][i + 1].ty.type = "message"
        /\ queues["tx1"][i + 1].ty.side = "side2"
        /\ queues["tx1"][i + 2].ty.type = "pong"
        /\ queues["tx1"][i + 2].id = queues["tx1"][i].id
        /\ Len(connections["c1"].log) = 3

\* C18: when the dispatch of a command returns an error, the last envelope
\* put on the caller's channel is an `error` envelope with the command's id
\* whose orig is the whole command envelope, and the handler goes on to the
\* next frame; a handler stops only when its socket closes.
C18_ErrorEnvelopeAndConnectionKept ==
    [][ /\ (last'.op = "dispatch" /\ last'.err # None) =>
              LET sent == Sent(queues, queues', sender_of[last'.c])
              IN  /\ sent # <<>>
                  /\ sent[Len(sent)].ty.type = "error"
                  /\ sent[Len(sent)].id = Some(last'.msg.id)
                  /\ sent[Len(sent)].ty.orig = last'.msg
                  /\ \A i \in 1..(Len(sent) - 1) : sent[i].ty.type # "error"
                  /\ connections'[last'.c].pc = "recv"
                  /\ ~panicked'
        /\ \A c \in ConnectionIds :
              (connections'[c].pc = "closed" /\ connections[c].pc # "closed") =>
                  (last'.op = "disconnect" /\ last'.c = c) ]_vars

\* C18 witness: connection c1 was sent an error for its first command and,
\* later, the pong of a ping.
C18_Witness ==
    /\ last.op = "dispatch" /\ last.c = "c1" /\ last.err = None
    /\ last.msg.ty.type = "ping"
    /\ Len(Replies("c1")) >= 4
    /\ Replies("c1")[2].ty.type = "error"
    /\ Replies("c1")[2].ty.orig = connections["c1"].log[1]
    /\ Replies("c1")[Len(Replies("c1"))].ty.type = "pong"

\* C19: a frame that does not decode to a command changes no nameplate, no
\* mailbox, no channel (no ack, no error) and not the Connection, and the
\* handler goes on to the next frame.
C19_MalformedFrameDropped ==
    [][ (last'.op = "malformed") =>
          /\ UNCHANGED <<nameplates, mailboxes, queues, panicked>>
          /\ connections'[last'.c].conn = connections[last'.c].conn
          /\ connections'[last'.c].log = connections[last'.c].log
          /\ connections'[last'.c].pc = "recv" ]_vars

\* C19 witness: the first frame of bound connection c1 did not decode, and a
\* later frame of it was acked and answered.
C19_Witness ==
    /\ last.op = "dispatch" /\ last.c = "c1" /\ last.err = None
    /\ last.msg.ty.type = "ping" /\ last.msg.id = FrameId("c1", 3)
    /\ connections["c1"].log[1].id = FrameId("c1", 2)
    /\ connections["c1"].conn.side # None

\* C20: a connection is bound only by the dispatch of a bind that returns no
\* error, to the app id and side of that bind; once bound its app id and
\* side never change; a bind on a bound connection returns an error, which
\* is sent to the caller, and changes no nameplate and no mailbox.
C20_BoundOnce ==
    [][ \A c \in ConnectionIds :
          LET conn == connections[c].conn
              conn2 == connections'[c].conn
          IN  /\ conn.side # None => (conn2.side = conn.side /\ conn2.app_id = conn.app_id)
              /\ (conn.side = None /\ conn2.side # None) =>
                     /\ last'.op = "dispatch" /\ last'.c = c /\ last'.err = None
                     /\ last'.msg.ty.type = "bind"
                     /\ conn2.side = Some(last'.msg.ty.side)
                     /\ conn2.app_id = Some(last'.msg.ty.app_id)
              /\ (last'.op = "dispatch" /\ last'.c = c /\ last'.msg.ty.type = "bind"
                     /\ conn.side # None) =>
                     /\ last'.err # None
                     /\ Sent(queues, queues', conn.sender) =
                            << [id |-> Some(last'.msg.id), server_rx |-> None,
                                ty |-> [type |-> "error", error |-> last'.err[1],
                                        orig |-> last'.msg]] >>
                     /\ UNCHANGED <<nameplates, mailboxes>> ]_vars

\* C20 witness: connection c1, bound as side1 and subscribed to a mailbox,
\* has sent a bind as side2, which returned an error; it is still side1.
C20_Witness ==
    /\ last.op = "dispatch" /\ last.c = "c1" /\ last.err # None
    /\ last.msg.ty = Bind("side2")
    /\ connections["c1"].conn.side = Some("side1")
    /\ connections["c1"].conn.mailbox_id # None


(***************************************************************************)
(* Properties of failing commands (UnboundSpec, ErrorsSpec).               *)
(***************************************************************************)
\* The envelope bin.rs sends for a command that returned the error.
IsErrorFor(e, msg) ==
    /\ e.ty.type = "error"
    /\ e.id = Some(msg.id)
    /\ e.ty.orig = msg
IsDispatch(call) == call.op \in {"dispatch", "add_message_to_mailbox"}

\* C21: when a connection that is not bound has a command other than bind,
\* ping and submit-permissions dispatched, the command returns an error,
\* the caller is sent one error envelope for it and nothing else is sent,
\* and no nameplate and no mailbox (with its subscribers and messages) is
\* created, changed or deleted.
C21_UnboundCommandRejected ==
    [][ (/\ IsDispatch(last')
         /\ connections[last'.c].conn.side = None
         /\ last'.msg.ty.type \notin {"bind", "ping", "submit-permissions"}) =>
          /\ last'.err # None
          /\ Len(Sent(queues, queues', sender_of[last'.c])) = 1
          /\ IsErrorFor(Sent(queues, queues', sender_of[last'.c])[1], last'.msg)
          /\ \A sender \in Senders \ {sender_of[last'.c]} : queues'[sender] = queues[sender]
          /\ connections'[last'.c].conn = connections[last'.c].conn
          /\ UNCHANGED <<nameplates, mailboxes>> ]_vars

\* C21 witness: connection c1, not bound, has sent a close of a mailbox that
\* exists with a subscriber, and was returned an error.
C21_Witness ==
    /\ last.op = "dispatch" /\ last.c = "c1" /\ last.err # None
    /\ last.msg.ty.type = "close"
    /\ connections["c1"].conn.side = None
    /\ last.msg.ty.mailbox_id \in DOMAIN mailboxes
    /\ mailboxes[last.msg.ty.mailbox_id].subscribers # <<>>

\* The mailbox a command of a bound connection is about is not in the App:
\* the mailbox a close names, or the mailbox the connection of an add opened
\* (if it opened any).
NamesAbsentMailbox(conn, msg) ==
    /\ conn.side # None
    /\ \/ msg.ty.type = "close" /\ msg.ty.mailbox_id \notin DOMAIN mailboxes
       \/ /\ msg.ty.type = "add"
          /\ conn.mailbox_id # None => conn.mailbox_id[1] \notin DOMAIN mailboxes

\* C25: when an add or a close of a bound connection is about a mailbox that
\* is not in the App, the caller is sent an error envelope for the command,
\* no nameplate and no mailbox changes, nothing panics, and the handlers of
\* this and of the other connections go on.
C25_UnknownMailboxRejected ==
    [][ (IsDispatch(last') /\ NamesAbsentMailbox(connections[last'.c].conn, last'.msg)) =>
          /\ last'.err # None
          /\ Len(Sent(queues, queues', sender_of[last'.c])) = 1
          /\ IsErrorFor(Sent(queues, queues', sender_of[last'.c])[1], last'.msg)
          /\ UNCHANGED <<nameplates, mailboxes>>
          /\ ~panicked'
          /\ connections'[last'.c].pc = "recv"
          /\ \A c \in ConnectionIds \ {last'.c} : connections'[c] = connections[c] ]_vars

\* C25 witness: connection c1 opened a mailbox, which the other connection
\* of the same side then closed and thereby deleted; the add of c1 was
\* returned an error.
C25_Witness ==
    /\ last.op = "dispatch" /\ last.c = "c1" /\ last.err # None
    /\ last.msg.ty.type = "add"
    /\ connections["c1"].conn.mailbox_id = Some(1)
    /\ 1 \notin DOMAIN mailboxes


(***************************************************************************)
(* Properties of the nameplate keys (RangeSpec).                           *)
(***************************************************************************)
\* C23: in every reachable state every key of the nameplates map lies in
\* NAMEPLATE_ID_RANGE, whether allocate chose it or a claim carried it.
C23_NameplateKeysInRange == DOMAIN nameplates \subseteq NAMEPLATE_ID_RANGE


(***************************************************************************)
(* The mailbox of a nameplate (CrowdedSpec).                               *)
(***************************************************************************)
\* One of the sides of the nameplate is a subscriber of its mailbox.
SideSubscribed(plates, boxes, nameplate_id) ==
    \E i \in 1..Len(plates[nameplate_id].sides) :
        is_subscribed(boxes[plates[nameplate_id].mailbox_id], plates[nameplate_id].sides[i])

\* C24 as claimed: in every reachable state, a nameplate whose mailbox is in
\* the App has one of its sides among the subscribers of that mailbox.
C24_LiveMailboxHasSideSubscribed ==
    \A nameplate_id \in DOMAIN nameplates :
        nameplates[nameplate_id].mailbox_id \in DOMAIN mailboxes =>
            SideSubscribed(nameplates, mailboxes, nameplate_id)

\* C24 as amended: in the state right after an operation created a nameplate
\* (allocate, or a claim of an id that had none), the mailbox of the new
\* nameplate is in the App and one of the nameplate's sides is a subscriber
\* of it.
C24_NewNameplateHasSideSubscribed ==
    [][ \A nameplate_id \in DOMAIN nameplates' \ DOMAIN nameplates :
            /\ nameplates'[nameplate_id].mailbox_id \in DOMAIN mailboxes'
            /\ SideSubscribed(nameplates', mailboxes', nameplate_id) ]_vars

\* C24 witness: a claim of side3 has just created nameplate 1, its mailbox
\* is in the App, and side3 is a subscriber of it.
C24_Witness ==
    /\ last.op = "claim_nameplate" /\ last.created /\ last.side = "side3"
    /\ nameplates[1].sides = <<"side3">>
    /\ nameplates[1].mailbox_id \in DOMAIN mailboxes
    /\ SideSubscribed(nameplates, mailboxes, 1)


(***************************************************************************)
(* The receive time of acks and errors (ServerSpec).                       *)
(***************************************************************************)
\* The acks and errors on the channels.
AcksAndErrors ==
    { e \in UNION { {queues[sender][i] : i \in 1..Len(queues[sender])} : sender \in Senders } :
        e.ty.type \in {"ack", "error"} }

\* C26 as claimed: every ack and every error envelope the server sent carries
\* a server_rx.
C26_AckAndErrorCarryServerRx == \A e \in AcksAndErrors : e.server_rx # None

\* C26 as amended: every ack and every error envelope the server sent carries
\* the id of a command and no server_rx.
C26_AckAndErrorCarryNoServerRx ==
    \A e \in AcksAndErrors : e.id # None /\ e.server_rx = None

\* C26 witness: connection c1 was sent an ack and an error, neither with a
\* server_rx.
C26_Witness ==
    /\ \E i \in 1..Len(queues["tx1"]) :
           queues["tx1"][i].ty.type = "ack" /\ queues["tx1"][i].server_rx = None
    /\ \E i \in 1..Len(queues["tx1"]) :
           queues["tx1"][i].ty.type = "error" /\ queues["tx1"][i].server_rx = None


(***************************************************************************)
(* Draining the App (PeersSpec).                                           *)
(***************************************************************************)
\* The sides recorded on the nameplates and the subscribers of the mailboxes.
RecordedSides(app) ==
    UNION { { <<n, app.nameplates[n].sides[i]>> :
                i \in 1..Len(app.nameplates[n].sides) } : n \in DOMAIN app.nameplates }
Subscriptions(app) ==
    UNION { { <<m, app.mailboxes[m].subscribers[i].side>> :
                i \in 1..Len(app.mailboxes[m].subscribers) } : m \in DOMAIN app.mailboxes }

\* The App after each of the given sides released its nameplate.
RECURSIVE ReleaseAll(_, _)
ReleaseAll(app, held) ==
    IF held = {} THEN app
    ELSE LET h == CHOOSE h \in held : TRUE
         IN  ReleaseAll(release_nameplate(app, h[1], h[2]), held \ {h})

\* The App after each of the given subscribers closed its mailbox.
RECURSIVE CloseAll(_, _)
CloseAll(app, open) ==
    IF open = {} THEN app
    ELSE LET o == CHOOSE o \in open : TRUE
         IN  CloseAll(close_mailbox(app, queues, o[1], o[2]).app, open \ {o})

Drained(app) == CloseAll(ReleaseAll(app, RecordedSides(app)), Subscriptions(app))

\* C27: in every state the allocate, claim, open, add, release and close of
\* the two peers can reach, the App that is left once every side recorded on
\* a nameplate has released it and every subscriber of a mailbox has closed
\* it has no nameplates and no mailboxes.
C27_DrainedAppIsEmpty ==
    /\ Drained(App).nameplates = EmptyMap
    /\ Drained(App).mailboxes = EmptyMap

\* C27 witness: a message was added to the mailbox and sent to both peers,
\* the mailbox was closed, and the release of the last side of the last
\* nameplate has left the App empty.
C27_Witness ==
    /\ last.op = "release_nameplate" /\ last.held
    /\ appended[1] # <<>>
    /\ \E i \in 1..Len(queues["tx1"]) : queues["tx1"][i].ty.type = "message"
    /\ \E i \in 1..Len(queues["tx2"]) : queues["tx2"][i].ty.type = "message"
    /\ nameplates = EmptyMap
    /\ mailboxes = EmptyMap
    /\ ~panicked


(***************************************************************************)
(* AppIds (AppsSpec).                                                      *)
(***************************************************************************)
\* The channels of the subscribers of the mailboxes of an App.
SubscriberChannels(app) ==
    UNION { {app.mailboxes[m].subscribers[i].sender :
                i \in 1..Len(app.mailboxes[m].subscribers)} : m \in DOMAIN app.mailboxes }

\* C22: a command (or the disconnect) of a connection bound to an AppId
\* leaves the App of every other AppId as it was and sends no message
\* envelope to a subscriber of one of its mailboxes, and the nameplates a
\* list reports are those of the App of the connection's own AppId.
C22_AppsAreDisjoint ==
    [][ \A c \in ConnectionIds :
          (/\ last'.op \in {"dispatch", "add_message_to_mailbox", "disconnect"}
           /\ last'.c = c
           /\ connections'[c].conn.app_id # None) =>
             LET own == connections'[c].conn.app_id[1]
             IN  /\ \A other \in AppIds \ {own} :
                        /\ AppRegistry'[other] = AppRegistry[other]
                        /\ \A sender \in SubscriberChannels(AppRegistry[other]) :
                               \A i \in 1..Len(Sent(queues, queues', sender)) :
                                   Sent(queues, queues', sender)[i].ty.type # "message"
                 /\ (IsDispatch(last') /\ last'.msg.ty.type = "list" /\ last'.err = None) =>
                        LET sent == Sent(queues, queues', sender_of[c])
                        IN  /\ Len(sent) = 1
                            /\ sent[1].ty.type = "nameplates"
                            /\ sent[1].ty.nameplates = DOMAIN AppRegistry[own].nameplates ]_vars

\* C22 witness: mailbox 1 is live in both Apps, each with its own subscriber,
\* the App of Y has a nameplate the App of X has not, and the connection
\* bound to X has just added a message to its mailbox.
C22_Witness ==
    /\ last.op = "add_message_to_mailbox" /\ last.c = "c1"
    /\ connections["c1"].conn.app_id = Some("X")
    /\ connections["c2"].conn.app_id = Some("Y")
    /\ 1 \in DOMAIN mailboxes
    /\ 1 \in DOMAIN apps["Y"].mailboxes
    /\ SubscriberChannels(apps["Y"]) = {"tx2"}
    /\ DOMAIN apps["Y"].nameplates # DOMAIN nameplates


(***************************************************************************)
(* Serialization (CodecSpec).                                              *)
(***************************************************************************)
IsDecimalString(chars) ==
    /\ Len(chars) >= 1
    /\ \A i \in 1..Len(chars) : chars[i] \in {"0", "1", "2", "3", "4", "5", "6", "7", "8", "9"}
    /\ Len(chars) > 1 => chars[1] # "0"
IsLowercaseHex(chars) ==
    \A i \in 1..Len(chars) :
        chars[i] \in {"0", "1", "2", "3", "4", "5", "6", "7", "8", "9",
                      "a", "b", "c", "d", "e", "f"}

\* C28: an envelope read back from its serialization is the envelope that
\* was written; in the serialization a nameplate id is a decimal string, a
\* phase is "pake", "version" or a decimal string, and a body is two
\* lowercase hex digits per byte.
C28_SerializationRoundTrips ==
    /\ last.op = "from_str" => last.ret = Some(last.msg)
    /\ last.op = "to_string" =>
          /\ last.msg.ty.type \in {"claim", "allocated"} =>
                 IsDecimalString(last.json.nameplate)
          /\ (last.msg.ty.type = "release" /\ last.msg.ty.nameplate_id # None) =>
                 IsDecimalString(last.json.nameplate.chars)
          /\ last.msg.ty.type = "nameplates" =>
                 \A info \in last.json.nameplates : IsDecimalString(info.id)
          /\ last.msg.ty.type \in {"add", "message"} =>
                 /\ \/ last.json.phase = <<"p", "a", "k", "e">> /\ last.msg.ty.phase = Pake
                    \/ /\ last.json.phase = <<"v", "e", "r", "s", "i", "o", "n">>
                       /\ last.msg.ty.phase = Version
                    \/ IsDecimalString(last.json.phase) /\ last.msg.ty.phase.tag = "message"
                 /\ IsLowercaseHex(last.json.body)
                 /\ Len(last.json.body) = 2 * Len(last.msg.ty.body)

\* C28 witness: the add of the application message 12 with the body f9 21
\* was written with the phase "12" and the body "f921" and read back.
C28_Witness ==
    /\ last.op = "from_str" /\ last.from = "client"
    /\ last.msg.ty = Add(Message(12), <<249, 33>>)
    /\ last.json.phase = <<"1", "2">>
    /\ last.json.body = <<"f", "9", "2", "1">>
    /\ last.ret = Some(last.msg)


(***************************************************************************)
(* Payload encryption (CryptoSpec).                                        *)
(***************************************************************************)
\* C29: a message encrypted under a key, side and phase and decrypted under
\* the same key, side and phase comes back as the plain text it was.
C29_EncryptionRoundTrips ==
    last.op = "decrypt_message" => last.ret = [result |-> "Ok", value |-> last.message]

\* C29 witness: "hello" was encrypted for the application phase 12 to the
\* nonce followed by five bytes and the tag, and decrypted to "hello".
C29_Witness ==
    /\ last.op = "decrypt_message"
    /\ last.message = <<104, 101, 108, 108, 111>>
    /\ last.phase = Message(12)
    /\ Len(last.encrypted) = NONCE_SIZE + 5 + 1
    /\ last.ret.result = "Ok"
    /\ last.ret.value = <<104, 101, 108, 108, 111>>


(***************************************************************************)
(* The client and server errors (ClientSpec).                              *)
(***************************************************************************)
\* C30: when the client, with its mailbox open, handles an error envelope,
\* it sends a close of its mailbox with mood errory; it does not go on
\* waiting for frames without having sent it.
C30_ErrorClosesErrory ==
    [][ (/\ last'.op = "handle_incoming"
         /\ last'.msg.ty.type = "error"
         /\ client.client.state \in {"PakeSent", "Exchange"}) =>
          /\ Len(client'.sent) > Len(client.sent)
          /\ client'.sent[Len(client'.sent)] =
                 [type |-> "close", mailbox_id |-> client.client.mailbox_id[1],
                  mood |-> "errory"] ]_vars

(***************************************************************************)
(* C31: in every interleaving of a connection's shutdown with the adds of  *)
(* other connections, the connection's handle is unregistered from every   *)
(* mailbox before the receiving end of its channel is dropped, so that no  *)
(* add ever sends on a channel whose receiver is gone (which would abort   *)
(* the add with the registry Mutex held).                                  *)
(***************************************************************************)
RegisteredSenders ==
    UNION { {mailboxes[m].subscribers[i].sender : i \in 1..Len(mailboxes[m].subscribers)} :
            m \in DOMAIN mailboxes }

C31_UnregisteredBeforeReceiverDropped ==
    /\ RegisteredSenders \cap dropped_receivers = {}
    /\ ~(panicked /\ last.op = "send_failed")


(***************************************************************************)
(* C32: a claim by a side that is already recorded on the nameplate        *)
(* returns the nameplate's mailbox id and changes nothing: not the sides   *)
(* (contents and order), not the subscribers, not the channels; also when  *)
(* the nameplate holds three or more sides.                                *)
(***************************************************************************)
C32_ReclaimIsNoOp ==
    [][(/\ last'.op = "claim_nameplate"
        /\ contains_key(nameplates, last'.nameplate_id)
        /\ contains(nameplates[last'.nameplate_id].sides, last'.side))
       => /\ last'.ret = Some(nameplates[last'.nameplate_id].mailbox_id)
          /\ nameplates' = nameplates
          /\ mailboxes' = mailboxes
          /\ queues' = queues
          /\ ~panicked']_vars

\* A side of a nameplate with three sides has claimed it again: a claim that
\* finds the nameplate and is answered with its mailbox id leaves three sides
\* only when the side was recorded.
C32_Witness ==
    /\ last.op = "claim_nameplate"
    /\ ~last.created
    /\ last.ret # None
    /\ contains_key(nameplates, last.nameplate_id)
    /\ Len(nameplates[last.nameplate_id].sides) >= 3

(***************************************************************************)
(* C33: open_mailbox by a side that is already a subscriber of the mailbox *)
(* leaves the subscribers and the stored messages as they were and sends   *)
(* nothing; an open sends the history only when it appends a subscriber.   *)
(***************************************************************************)
C33_ReopenIsNoOp ==
    [][last'.op = "open_mailbox"
       => /\ ~last'.new => (mailboxes' = mailboxes /\ queues' = queues)
          /\ queues' # queues
                => /\ last'.new
                   /\ subscribers_of(mailboxes', last'.mailbox_id) =
                          Append(subscribers_of(mailboxes, last'.mailbox_id),
                                 [side |-> last'.side, sender |-> last'.sender])]_vars

\* A subscriber of a mailbox with stored messages has opened it again, on
\* another channel than the one it is subscribed with.
C33_Witness ==
    /\ last.op = "open_mailbox"
    /\ ~last.new
    /\ messages_of(mailboxes, last.mailbox_id) # <<>>
    /\ \E i \in 1..Len(subscribers_of(mailboxes, last.mailbox_id)) :
           /\ mailboxes[last.mailbox_id].subscribers[i].side = last.side
           /\ mailboxes[last.mailbox_id].subscribers[i].sender # last.sender

(***************************************************************************)
(* C34: the stored messages of a live mailbox are append-only, and adds    *)
(* are not idempotent. Over any step a mailbox that stays live keeps its   *)
(* messages as a prefix; an add lengthens them by exactly the added        *)
(* message, placed last, whether or not an equal message is stored         *)
(* already, and sends its envelope once more to every subscriber; no other *)
(* step changes them.                                                      *)
(***************************************************************************)
IsAddTo(call, m) == call.op = "add_message_to_mailbox" /\ call.mailbox_id = m

C34_MessagesAppendOnly ==
    [][\A m \in DOMAIN mailboxes \cap DOMAIN mailboxes' :
          LET before == mailboxes[m].messages
              after == mailboxes'[m].messages
              subscribers == mailboxes[m].subscribers
          IN  IF IsAddTo(last', m)
              THEN /\ after = Append(before, last'.message)
                   /\ \A sender \in Senders :
                          LET sent == Sent(queues, queues', sender)
                          IN  /\ Len(sent) = Cardinality({i \in 1..Len(subscribers) :
                                                            subscribers[i].sender = sender})
                              /\ \A i \in 1..Len(sent) : sent[i] = forward_msg(last'.message)
              ELSE after = before]_vars

\* A message equal to the one stored before it has been added to a mailbox
\* with a subscriber.
C34_Witness ==
    /\ last.op = "add_message_to_mailbox"
    /\ last.mailbox_id \in DOMAIN mailboxes
    /\ mailboxes[last.mailbox_id].subscribers # <<>>
    /\ Len(mailboxes[last.mailbox_id].messages) >= 2
    /\ mailboxes[last.mailbox_id].messages[1] = last.message
    /\ mailboxes[last.mailbox_id].messages[2] = last.message

(***************************************************************************)
(* C35: right after an add_message_to_mailbox that completed, no mailbox   *)
(* of the App is without a subscriber: the add removed every such mailbox, *)
(* the target included, and left the mailboxes with a subscriber as they   *)
(* were (the target with the message added).                               *)
(***************************************************************************)
C35_AddSweepsEmptyMailboxes ==
    [][(last'.op = "add_message_to_mailbox" /\ ~panicked')
       => /\ \A m \in DOMAIN mailboxes' : mailboxes'[m].subscribers # <<>>
          /\ DOMAIN mailboxes' = {m \in DOMAIN mailboxes : mailboxes[m].subscribers # <<>>}
          /\ \A m \in DOMAIN mailboxes' :
                 /\ mailboxes'[m].subscribers = mailboxes[m].subscribers
                 /\ m # last'.mailbox_id => mailboxes'[m] = mailboxes[m]]_vars

\* An add whose target had no subscriber has completed: the target is gone
\* and a mailbox with a subscriber is still there.
C35_Witness ==
    /\ last.op = "add_message_to_mailbox"
    /\ ~panicked
    /\ last.mailbox_id \notin DOMAIN mailboxes
    /\ mailboxes # EmptyMap

(***************************************************************************)
(* C36: remove_subscriber_from_mailboxes(handle) removes from every        *)
(* mailbox of the App exactly the subscribers whose handle is that handle, *)
(* whatever their side: the subscribers with another handle stay, in their *)
(* order, and the stored messages, the set of mailboxes, the nameplates    *)
(* and the channels are unchanged.                                         *)
(***************************************************************************)
C36_CleanupRemovesHandleOnly ==
    [][last'.op = "remove_subscriber_from_mailboxes"
       => /\ DOMAIN mailboxes' = DOMAIN mailboxes
          /\ \A m \in DOMAIN mailboxes :
                 /\ mailboxes'[m].messages = mailboxes[m].messages
                 /\ \A i \in 1..Len(mailboxes'[m].subscribers) :
                        mailboxes'[m].subscribers[i].sender # last'.sender
                 /\ mailboxes'[m].subscribers =
                        SelectSeq(mailboxes[m].subscribers, LAMBDA s : s.sender # last'.sender)
          /\ nameplates' = nameplates
          /\ queues' = queues]_vars

\* The cleanup of a handle that two sides were subscribed with has run, and
\* a mailbox with a stored message keeps its subscriber on the other handle
\* while the nameplate still lists both sides.
C36_Witness ==
    /\ last.op = "remove_subscriber_from_mailboxes"
    /\ Cardinality(last.sides) >= 2
    /\ \E m \in DOMAIN mailboxes :
           /\ mailboxes[m].messages # <<>>
           /\ mailboxes[m].subscribers # <<>>
    /\ \E n \in DOMAIN nameplates : Len(nameplates[n].sides) >= 2

(***************************************************************************)
(* C37: allocate commands of different connections bound to the same AppId *)
(* never return the same nameplate id: the id an allocate returns was free *)
(* before the call, differs from the id every other connection holds, and  *)
(* names a nameplate whose only side is the caller.                        *)
(***************************************************************************)
IsAllocated(call) ==
    /\ call.op = "dispatch"
    /\ call.msg.ty.type = "allocate"
    /\ call.err = None

\* The last envelope on the channel of connection c.
LastSent(q, c) == q[sender_of[c]][Len(q[sender_of[c]])]

C37_ConcurrentAllocatesDiffer ==
    [][IsAllocated(last')
       => LET c == last'.c
              response == LastSent(queues', c)
              nameplate_id == response.ty.nameplate_id
          IN  /\ response.ty.type = "allocated"
              /\ response.id = Some(last'.msg.id)
              /\ ~contains_key(nameplates, nameplate_id)
              /\ nameplates'[nameplate_id].sides = <<connections[c].conn.side[1]>>
              /\ \A d \in ConnectionIds \ {c} :
                     connections[d].conn.nameplate_id # Some(nameplate_id)]_vars

\* Both connections have bound and sent an allocate, and both allocates have
\* been dispatched: each connection holds an id.
C37_Witness ==
    /\ IsAllocated(last)
    /\ \A c \in ConnectionIds :
           /\ Len(connections[c].log) = 2
           /\ connections[c].log[2].ty = Allocate
           /\ connections[c].pc = "recv"
           /\ connections[c].conn.nameplate_id # None

(***************************************************************************)
(* C38: when two distinct sides claim the same free nameplate id at the    *)
(* same time, exactly one nameplate and exactly one mailbox are created    *)
(* and both claims return the same mailbox id, whichever claim is served   *)
(* first.                                                                  *)
(***************************************************************************)
\* Both connections have bound, as different sides, and had a claim of
\* nameplate 1 dispatched, and nothing else.
BothClaimed ==
    /\ \A c \in ConnectionIds :
           /\ Len(connections[c].log) = 2
           /\ connections[c].log[2].ty = Claim(1)
           /\ connections[c].pc = "recv"
    /\ connections["c1"].conn.side # connections["c2"].conn.side

C38_ConcurrentClaimsShareMailbox ==
    BothClaimed
    => /\ DOMAIN nameplates = {1}
       /\ Cardinality(DOMAIN mailboxes) = 1
       /\ DOMAIN mailboxes = {nameplates[1].mailbox_id}
       /\ \A c \in ConnectionIds :
              /\ LastSent(queues, c).ty.type = "claimed"
              /\ LastSent(queues, c).id = Some(connections[c].log[2].id)
              /\ LastSent(queues, c).ty.mailbox_id = nameplates[1].mailbox_id
              /\ contains(nameplates[1].sides, connections[c].conn.side[1])

\* The claim of c2 was served first.
C38_Witness ==
    /\ BothClaimed
    /\ nameplates[1].sides = <<"side2", "side1">>

(***************************************************************************)
(* C39: in every reachable state no side occurs twice in the sides of a    *)
(* nameplate and no side occurs twice among the subscribers of a mailbox,  *)
(* whatever allocates, claims, opens, releases, closes and disconnect      *)
(* cleanups came before.                                                   *)
(***************************************************************************)
C39_SidesOccurOnce ==
    /\ \A n \in DOMAIN nameplates :
           \A i, j \in 1..Len(nameplates[n].sides) :
               nameplates[n].sides[i] = nameplates[n].sides[j] => i = j
    /\ \A m \in DOMAIN mailboxes :
           \A i, j \in 1..Len(mailboxes[m].subscribers) :
               mailboxes[m].subscribers[i].side = mailboxes[m].subscribers[j].side => i = j

\* A side recorded on a nameplate of two sides has claimed it again, while
\* the mailbox of the nameplate has two subscribers.
C39_Witness ==
    /\ last.op = "claim_nameplate"
    /\ ~last.created
    /\ last.ret # None
    /\ contains_key(nameplates, last.nameplate_id)
    /\ nameplates[last.nameplate_id].sides \in {<<"side2", "side1">>, <<"side1", "side2">>}
    /\ nameplates[last.nameplate_id].sides[1] = last.side
    /\ Len(subscribers_of(mailboxes, nameplates[last.nameplate_id].mailbox_id)) = 2

====
